---- MODULE Spec2Model ----
(***************************************************************************)
(* The adaptive quadrature drivers qag, qags and qagp of                   *)
(* src/src/types/integration.rs, with the subinterval workspace they share *)
(* and the epsilon-algorithm table of the extrapolating drivers.           *)
(*                                                                         *)
(* Numbers.  The f64 values of the program (bounds, results, errors,      *)
(* tolerances) are integers here: a value is a multiple of one unit, and   *)
(* the text of the claims asks for exact arithmetic.  The u64/uint values  *)
(* (size, nrmax, i, order, level, iteration, limit) are naturals with      *)
(* wrapping subtraction (USub).                                            *)
(*                                                                         *)
(* The quadrature kernel q and the integrand are outside the program: a    *)
(* kernel call is a choice among the records of KernelOut.                 *)
(***************************************************************************)
EXTENDS Integers, Sequences, FiniteSets, TLC

(***************************************************************************)
(* Bounds of the model.                                                    *)
(***************************************************************************)
\* capacity of the workspace, the n of IntegrationWorkspace::new(n)
Capacity == 6
\* kernel error estimates are drawn from 0..MaxErr
MaxErr == 2
\* kernel results are drawn from 0..MaxArea
MaxArea == 1
\* the qag loop is followed for at most MaxIters executions of its body
MaxIters == 8

(***************************************************************************)
(* Program constants, scaled.                                              *)
(***************************************************************************)
\* 1 / DBL_EPSILON.  The machine epsilon is 2^-52; the model keeps it a
\* small fraction of the unit so that products stay within TLC's integers.
EpsInv == 1000
\* DBL_MAX: larger than every value a run of the model computes.
DBL_MAX == 1000000
\* The modulus of u64 / uint arithmetic: stands for 2^64.
Wrap == 1073741824

Abs(x) == IF x < 0 THEN -x ELSE x

Max2(x, y) == IF x >= y THEN x ELSE y

Min2(x, y) == IF x <= y THEN x ELSE y

\* x - y on u64 / uint: wraps around below zero (no overflow check in the build)
USub(x, y) == IF x >= y THEN x - y ELSE Wrap + x - y

(***************************************************************************)
(* The workspace: the gsl_integration_workspace behind IntegrationWorkspace.*)
(* The six lists are arrays of `limit` slots, indexed from 0.  A CVec view *)
(* of a list is a window of a given length onto it.  An index at or beyond *)
(* the length of its view is a bounds-check failure (level 1); an index at *)
(* or beyond the allocated `limit` slots is outside the allocation         *)
(* (level 2).  Chk gives the level of one access.                          *)
(***************************************************************************)
Chk(idx, len, w) == IF idx >= w.limit THEN 2 ELSE IF idx >= len THEN 1 ELSE 0

\* read of slot idx of a list; a read outside the allocation yields 0 here and
\* is reported by Chk
Rd(arr, idx) == IF idx \in DOMAIN arr THEN arr[idx] ELSE 0

\* write of slot idx of a list; a write outside the allocation is dropped here
\* and is reported by Chk
Wr(arr, idx, v) == IF idx \in DOMAIN arr THEN [arr EXCEPT ![idx] = v] ELSE arr

\* gsl_integration_workspace_alloc(n): n slots per list, contents as allocated
NewWorkspace(n) ==
  [limit |-> n, size |-> 0, nrmax |-> 0, i |-> 0, maximum_level |-> 0,
   alist |-> [k \in 0..(n-1) |-> 0], blist |-> [k \in 0..(n-1) |-> 0],
   rlist |-> [k \in 0..(n-1) |-> 0], elist |-> [k \in 0..(n-1) |-> 0],
   order |-> [k \in 0..(n-1) |-> 0], level |-> [k \in 0..(n-1) |-> 0]]

\* A faulty initialise, to test the determinism of a call: order[0] keeps what
\* the memory held.
initialise_stale_order(w, a, b) ==
  [w |-> [w EXCEPT !.size = 0, !.nrmax = 0, !.i = 0,
                   !.alist = Wr(@, 0, a), !.blist = Wr(@, 0, b),
                   !.rlist = Wr(@, 0, 0), !.elist = Wr(@, 0, 0),
                   !.level = Wr(@, 0, 0),
                   !.maximum_level = 0],
   bad |-> Chk(0, 1, w)]

\* A faulty initialise, to test the reuse of a workspace: maximum_level keeps
\* the value the call before left.
initialise_stale_level(w, a, b) ==
  [w |-> [w EXCEPT !.size = 0, !.nrmax = 0, !.i = 0,
                   !.alist = Wr(@, 0, a), !.blist = Wr(@, 0, b),
                   !.rlist = Wr(@, 0, 0), !.elist = Wr(@, 0, 0),
                   !.order = Wr(@, 0, 0), !.level = Wr(@, 0, 0)],
   bad |-> Chk(0, 1, w)]

\* IntegrationWorkspace::initialise
initialise(w, a, b) ==
  [w |-> [w EXCEPT !.size = 0, !.nrmax = 0, !.i = 0,
                   !.alist = Wr(@, 0, a), !.blist = Wr(@, 0, b),
                   !.rlist = Wr(@, 0, 0), !.elist = Wr(@, 0, 0),
                   !.order = Wr(@, 0, 0), !.level = Wr(@, 0, 0),
                   !.maximum_level = 0],
   bad |-> Chk(0, 1, w)]

\* set_initial_result without the assignment of size
set_initial_result_unsized(w, result, error) ==
  [w |-> [w EXCEPT !.rlist = Wr(@, 0, result), !.elist = Wr(@, 0, error)],
   bad |-> Chk(0, 1, w)]

\* IntegrationWorkspace::set_initial_result
set_initial_result(w, result, error) ==
  [w |-> [w EXCEPT !.size = 1, !.rlist = Wr(@, 0, result), !.elist = Wr(@, 0, error)],
   bad |-> Chk(0, 1, w)]

\* IntegrationWorkspace::retrieve: the views have length i + 1
retrieve(w) ==
  [a |-> Rd(w.alist, w.i), b |-> Rd(w.blist, w.i),
   r |-> Rd(w.rlist, w.i), e |-> Rd(w.elist, w.i),
   bad |-> Chk(w.i, w.i + 1, w)]

\* IntegrationWorkspace::sum_results
RECURSIVE SumTo(_, _)
SumTo(arr, n) == IF n = 0 THEN 0 ELSE SumTo(arr, n - 1) + Rd(arr, n - 1)

sum_results(w) == SumTo(w.rlist, w.size)

(***************************************************************************)
(* qpsrt.  The three loops thread a record s = [order, i_nrmax, i, k, bad] *)
(* through their iterations; lenOrder and lenElist are the lengths the     *)
(* order and elist views were created with.                                *)
(***************************************************************************)
\* while i_nrmax > 0 && errmax > elist[order[i_nrmax - 1]]
RECURSIVE qpsrt_undefer(_, _, _, _, _)
qpsrt_undefer(s, w, errmax, lenOrder, lenElist) ==
  IF s.i_nrmax > 0
  THEN LET j  == Rd(s.order, s.i_nrmax - 1)
           c  == Max2(Chk(s.i_nrmax - 1, lenOrder, w), Chk(j, lenElist, w))
       IN IF errmax > Rd(w.elist, j)
          THEN qpsrt_undefer([s EXCEPT !.order = Wr(@, s.i_nrmax, j),
                                       !.i_nrmax = s.i_nrmax - 1,
                                       !.bad = Max2(@, Max2(c, Chk(s.i_nrmax, lenOrder, w)))],
                             w, errmax, lenOrder, lenElist)
          ELSE [s EXCEPT !.bad = Max2(@, c)]
  ELSE s

\* while i < top && errmax < elist[order[i]]
RECURSIVE qpsrt_topdown(_, _, _, _, _, _)
qpsrt_topdown(s, w, errmax, top, lenOrder, lenElist) ==
  IF s.i < top
  THEN LET j == Rd(s.order, s.i)
           c == Max2(Chk(s.i, lenOrder, w), Chk(j, lenElist, w))
       IN IF errmax < Rd(w.elist, j)
          THEN qpsrt_topdown([s EXCEPT !.order = Wr(@, s.i - 1, j),
                                       !.i = s.i + 1,
                                       !.bad = Max2(@, Max2(c, Chk(s.i - 1, lenOrder, w)))],
                             w, errmax, top, lenOrder, lenElist)
          ELSE [s EXCEPT !.bad = Max2(@, c)]
  ELSE s

\* while k > i - 2 && errmin >= elist[order[k]]
RECURSIVE qpsrt_bottomup(_, _, _, _, _)
qpsrt_bottomup(s, w, errmin, lenOrder, lenElist) ==
  IF s.k > USub(s.i, 2)
  THEN LET j == Rd(s.order, s.k)
           c == Max2(Chk(s.k, lenOrder, w), Chk(j, lenElist, w))
       IN IF errmin >= Rd(w.elist, j)
          THEN qpsrt_bottomup([s EXCEPT !.order = Wr(@, s.k + 1, j),
                                        !.k = USub(s.k, 1),
                                        !.bad = Max2(@, Max2(c, Chk(s.k + 1, lenOrder, w)))],
                              w, errmin, lenOrder, lenElist)
          ELSE [s EXCEPT !.bad = Max2(@, c)]
  ELSE s

\* A faulty qpsrt_top, to test the permutation property: the late-phase count
\* at every size.
qpsrt_top_late(last, limit) == USub(limit, last) + 1

\* the number of elements of order kept in descending order
qpsrt_top(last, limit) ==
  IF last < (limit \div 2) + 2 THEN last ELSE USub(limit, last) + 1

\* IntegrationWorkspace::qpsrt
qpsrt(w) ==
  LET lenOrder == w.nrmax + 1
      last     == USub(w.size, 1)
      i_maxerr == Rd(w.order, w.nrmax)
      c0       == Chk(w.nrmax, lenOrder, w)
  IN IF last < 2
     THEN [w   |-> [w EXCEPT !.order = Wr(Wr(@, 0, 0), 1, 1), !.i = i_maxerr],
           bad |-> Max2(c0, Max2(Chk(0, lenOrder, w), Chk(1, lenOrder, w))),
           wrap |-> w.size < 1]
     ELSE
       LET lenElist == i_maxerr + 1
           errmax   == Rd(w.elist, i_maxerr)
           s0 == [order |-> w.order, i_nrmax |-> w.nrmax, i |-> 0, k |-> 0,
                  bad |-> Max2(c0, Chk(i_maxerr, lenElist, w))]
           s1 == qpsrt_undefer(s0, w, errmax, lenOrder, lenElist)
           top == qpsrt_top(last, w.limit)
           s2 == qpsrt_topdown([s1 EXCEPT !.i = s1.i_nrmax + 1], w, errmax, top,
                               lenOrder, lenElist)
           s3 == [s2 EXCEPT !.order = Wr(@, s2.i - 1, i_maxerr),
                            !.bad = Max2(@, Chk(s2.i - 1, lenOrder, w))]
           errmin == Rd(w.elist, last)
           s4 == qpsrt_bottomup([s3 EXCEPT !.k = USub(top, 1),
                                           !.bad = Max2(@, Chk(last, lenElist, w))],
                                w, errmin, lenOrder, lenElist)
           kk == (s4.k + 1) % Wrap
           s5 == [s4 EXCEPT !.order = Wr(@, kk, last),
                            !.bad = Max2(@, Chk(kk, lenOrder, w))]
       IN [w   |-> [w EXCEPT !.order = s5.order,
                             !.i = Rd(s5.order, s5.i_nrmax),
                             !.nrmax = s5.i_nrmax],
           bad |-> Max2(s5.bad, Chk(s5.i_nrmax, lenOrder, w)),
           \* size - 1, limit - last + 1, top - 1 or i - 2 went below zero
           wrap |-> \/ w.size < 1
                    \/ (last >= (w.limit \div 2) + 2 /\ w.limit < last)
                    \/ top < 1
                    \/ s2.i < 2]

\* A faulty update, to test the partition property: the child that takes the
\* slot of the parent keeps the parent's bounds.
update_parent_bounds(w, a1, b1, area1, error1, a2, b2, area2, error2) ==
  LET i_max == w.i
      i_new == w.size
      new_level == Rd(w.level, i_max) + 1
      w1 == IF error2 > error1
            THEN [w EXCEPT !.alist = Wr(@, i_new, a1), !.blist = Wr(@, i_new, b1),
                           !.rlist = Wr(Wr(@, i_max, area2), i_new, area1),
                           !.elist = Wr(Wr(@, i_max, error2), i_new, error1),
                           !.level = Wr(Wr(@, i_max, new_level), i_new, new_level)]
            ELSE [w EXCEPT !.alist = Wr(@, i_new, a2), !.blist = Wr(@, i_new, b2),
                           !.rlist = Wr(Wr(@, i_max, area1), i_new, area2),
                           !.elist = Wr(Wr(@, i_max, error1), i_new, error2),
                           !.level = Wr(Wr(@, i_max, new_level), i_new, new_level)]
      q  == qpsrt([w1 EXCEPT !.size = w.size + 1,
                             !.maximum_level = IF new_level > @ THEN new_level ELSE @])
  IN [w |-> q.w, bad |-> q.bad, wrap |-> q.wrap]

\* A faulty update, to test the placement of the halves: on equal errors the
\* second half takes the slot of the parent.
update_tie_second(w, a1, b1, area1, error1, a2, b2, area2, error2) ==
  LET i_max == w.i
      i_new == w.size
      tmp   == IF i_max > i_new THEN i_max + 1 ELSE i_new + 1
      new_level == Rd(w.level, i_max) + 1
      c  == Max2(Chk(i_max, tmp, w), Chk(i_new, tmp, w))
      w1 == IF error2 >= error1
            THEN [w EXCEPT !.alist = Wr(Wr(@, i_max, a2), i_new, a1),
                           !.blist = Wr(@, i_new, b1),
                           !.rlist = Wr(Wr(@, i_max, area2), i_new, area1),
                           !.elist = Wr(Wr(@, i_max, error2), i_new, error1),
                           !.level = Wr(Wr(@, i_max, new_level), i_new, new_level)]
            ELSE [w EXCEPT !.alist = Wr(@, i_new, a2),
                           !.blist = Wr(Wr(@, i_max, b1), i_new, b2),
                           !.rlist = Wr(Wr(@, i_max, area1), i_new, area2),
                           !.elist = Wr(Wr(@, i_max, error1), i_new, error2),
                           !.level = Wr(Wr(@, i_max, new_level), i_new, new_level)]
      w2 == [w1 EXCEPT !.size = w.size + 1,
                       !.maximum_level = IF new_level > @ THEN new_level ELSE @]
      q  == qpsrt(w2)
  IN [w |-> q.w, bad |-> Max2(c, q.bad), wrap |-> q.wrap]

\* A faulty update, to test the invariant of maximum_level: maximum_level is
\* left as it was.
update_stale_maximum(w, a1, b1, area1, error1, a2, b2, area2, error2) ==
  LET i_max == w.i
      i_new == w.size
      tmp   == IF i_max > i_new THEN i_max + 1 ELSE i_new + 1
      new_level == Rd(w.level, i_max) + 1
      c  == Max2(Chk(i_max, tmp, w), Chk(i_new, tmp, w))
      w1 == IF error2 > error1
            THEN [w EXCEPT !.alist = Wr(Wr(@, i_max, a2), i_new, a1),
                           !.blist = Wr(@, i_new, b1),
                           !.rlist = Wr(Wr(@, i_max, area2), i_new, area1),
                           !.elist = Wr(Wr(@, i_max, error2), i_new, error1),
                           !.level = Wr(Wr(@, i_max, new_level), i_new, new_level)]
            ELSE [w EXCEPT !.alist = Wr(@, i_new, a2),
                           !.blist = Wr(Wr(@, i_max, b1), i_new, b2),
                           !.rlist = Wr(Wr(@, i_max, area1), i_new, area2),
                           !.elist = Wr(Wr(@, i_max, error1), i_new, error2),
                           !.level = Wr(Wr(@, i_max, new_level), i_new, new_level)]
      q  == qpsrt([w1 EXCEPT !.size = w.size + 1])
  IN [w |-> q.w, bad |-> Max2(c, q.bad), wrap |-> q.wrap]

\* IntegrationWorkspace::update: the views have length max(i, size) + 1
update(w, a1, b1, area1, error1, a2, b2, area2, error2) ==
  LET i_max == w.i
      i_new == w.size
      tmp   == IF i_max > i_new THEN i_max + 1 ELSE i_new + 1
      new_level == Rd(w.level, i_max) + 1
      c  == Max2(Chk(i_max, tmp, w), Chk(i_new, tmp, w))
      w1 == IF error2 > error1
            THEN [w EXCEPT !.alist = Wr(Wr(@, i_max, a2), i_new, a1),
                           !.blist = Wr(@, i_new, b1),
                           !.rlist = Wr(Wr(@, i_max, area2), i_new, area1),
                           !.elist = Wr(Wr(@, i_max, error2), i_new, error1),
                           !.level = Wr(Wr(@, i_max, new_level), i_new, new_level)]
            ELSE [w EXCEPT !.alist = Wr(@, i_new, a2),
                           !.blist = Wr(Wr(@, i_max, b1), i_new, b2),
                           !.rlist = Wr(Wr(@, i_max, area1), i_new, area2),
                           !.elist = Wr(Wr(@, i_max, error1), i_new, error2),
                           !.level = Wr(Wr(@, i_max, new_level), i_new, new_level)]
      w2 == [w1 EXCEPT !.size = w.size + 1,
                       !.maximum_level = IF new_level > @ THEN new_level ELSE @]
      q  == qpsrt(w2)
  IN [w |-> q.w, bad |-> Max2(c, q.bad), wrap |-> q.wrap]

\* IntegrationWorkspace::sort_results, inner loop: for j in range(i + 1, nint)
RECURSIVE sort_scan(_, _, _, _, _)
sort_scan(s, w, order, j, nint) ==
  IF j < nint
  THEN LET i2 == Rd(order, j)
           e2 == Rd(w.elist, i2)
           c  == Max2(Chk(j, nint, w), Chk(i2, nint, w))
       IN sort_scan(IF e2 >= s.e1
                    THEN [i_max |-> i2, e1 |-> e2, bad |-> Max2(s.bad, c)]
                    ELSE [s EXCEPT !.bad = Max2(@, c)],
                    w, order, j + 1, nint)
  ELSE s

\* IntegrationWorkspace::sort_results, outer loop: for i in range(0, nint)
RECURSIVE sort_pass(_, _, _, _)
sort_pass(s, w, i, nint) ==
  IF i < nint
  THEN LET i1 == Rd(s.order, i)
           m  == sort_scan([i_max |-> i1, e1 |-> Rd(w.elist, i1),
                            bad |-> Max2(Chk(i, nint, w), Chk(i1, nint, w))],
                           w, s.order, i + 1, nint)
       IN sort_pass(IF m.i_max # i1
                    THEN [order |-> Wr(Wr(s.order, i, Rd(s.order, m.i_max)), m.i_max, i1),
                          bad |-> Max2(s.bad, Max2(m.bad, Chk(m.i_max, nint, w)))]
                    ELSE [s EXCEPT !.bad = Max2(@, m.bad)],
                    w, i + 1, nint)
  ELSE s

\* IntegrationWorkspace::sort_results
sort_results(w) ==
  LET nint == w.size
      s    == sort_pass([order |-> w.order, bad |-> 0], w, 0, nint)
  IN [w   |-> [w EXCEPT !.order = s.order, !.i = Rd(s.order, 0)],
      bad |-> Max2(s.bad, Chk(0, nint, w))]

\* append_interval: the views have length size + 1
append_interval(w, a1, b1, area1, error1) ==
  LET i_new == w.size
  IN [w   |-> [w EXCEPT !.alist = Wr(@, i_new, a1), !.blist = Wr(@, i_new, b1),
                        !.rlist = Wr(@, i_new, area1), !.elist = Wr(@, i_new, error1),
                        !.order = Wr(@, i_new, i_new), !.level = Wr(@, i_new, 0),
                        !.size = w.size + 1],
      bad |-> Chk(i_new, i_new + 1, w)]

\* A faulty scan of increase_nrmax, to test what it returns: nrmax is
\* advanced before the level is tested, so that a return of true leaves the
\* cursor one position beyond the subinterval found.
RECURSIVE increase_scan_ahead(_, _, _, _, _)
increase_scan_ahead(s, k, jupbnd, lenOrder, lenLevel) ==
  IF k < jupbnd + 1
  THEN LET i_max == Rd(s.w.order, s.w.nrmax)
           c     == Max2(Chk(s.w.nrmax, lenOrder, s.w), Chk(i_max, lenLevel, s.w))
           w1    == [s.w EXCEPT !.i = i_max, !.nrmax = @ + 1]
       IN IF Rd(w1.level, i_max) < w1.maximum_level
          THEN [w |-> w1, ret |-> TRUE, bad |-> Max2(s.bad, c)]
          ELSE increase_scan_ahead([w |-> w1, ret |-> FALSE, bad |-> Max2(s.bad, c)],
                                   k + 1, jupbnd, lenOrder, lenLevel)
  ELSE s

\* increase_nrmax, the loop: for k in range(id, jupbnd + 1).  The order view
\* has the length nrmax + 1 of the call's entry, the level view order[nrmax] + 1.
RECURSIVE increase_scan(_, _, _, _, _)
increase_scan(s, k, jupbnd, lenOrder, lenLevel) ==
  IF k < jupbnd + 1
  THEN LET i_max == Rd(s.w.order, s.w.nrmax)
           c     == Max2(Chk(s.w.nrmax, lenOrder, s.w), Chk(i_max, lenLevel, s.w))
           w1    == [s.w EXCEPT !.i = i_max]
       IN IF Rd(w1.level, i_max) < w1.maximum_level
          THEN [w |-> w1, ret |-> TRUE, bad |-> Max2(s.bad, c)]
          ELSE increase_scan([w |-> [w1 EXCEPT !.nrmax = @ + 1], ret |-> FALSE,
                              bad |-> Max2(s.bad, c)],
                             k + 1, jupbnd, lenOrder, lenLevel)
  ELSE s

\* increase_nrmax
increase_nrmax(w) ==
  LET lenOrder == w.nrmax + 1
      lenLevel == Rd(w.order, w.nrmax) + 1
      last     == USub(w.size, 1)
      jupbnd   == IF last > 1 + (w.limit \div 2) THEN USub(w.limit + 1, last) ELSE last
  IN increase_scan([w |-> w, ret |-> FALSE, bad |-> 0], w.nrmax, jupbnd, lenOrder, lenLevel)

\* A faulty large_interval, to test the gating of the extrapolation: true
\* for the subintervals of the deepest level.
large_interval_deepest(w) == Rd(w.level, w.i) >= w.maximum_level

\* large_interval: the level view has length i + 1
large_interval(w) == Rd(w.level, w.i) < w.maximum_level

\* A faulty reset_nrmax, to test the consistency of the cursor: i keeps the
\* deferred subinterval.
reset_nrmax_stale(w) == [w EXCEPT !.nrmax = 0]

\* reset_nrmax
reset_nrmax(w) == [w EXCEPT !.nrmax = 0, !.i = Rd(w.order, 0)]

(***************************************************************************)
(* Fractions.  The epsilon algorithm divides: what it computes from the    *)
(* integer partial sums is a fraction <<num, den>> with den > 0, kept in    *)
(* lowest terms.  A value of magnitude DBL_MAX absorbs what is added to it, *)
(* as the largest f64 does, and its reciprocal is lost in any sum: QInv     *)
(* gives 0 for it.                                                         *)
(***************************************************************************)
RECURSIVE GCD(_, _)
GCD(x, y) == IF y = 0 THEN x ELSE GCD(y, x % y)

QNorm(n, d) ==
  LET g == GCD(Abs(n), Abs(d))
      sg == IF d < 0 THEN -1 ELSE 1
  IN IF n = 0 THEN <<0, 1>> ELSE <<sg * (n \div g), sg * (d \div g)>>

ToQ(x) == <<x, 1>>

QBig == ToQ(DBL_MAX)

QIsBig(x) == Abs(x[1]) \div x[2] >= DBL_MAX

QNeg(x) == <<-x[1], x[2]>>

QAbs(x) == <<Abs(x[1]), x[2]>>

\* x < y; every value of magnitude DBL_MAX or more is the one largest f64
QLt(x, y) ==
  IF QIsBig(x) /\ QIsBig(y) THEN x[1] < 0 /\ y[1] > 0
  ELSE IF QIsBig(y) THEN y[1] > 0
  ELSE IF QIsBig(x) THEN x[1] < 0
  ELSE x[1] * y[2] < y[1] * x[2]

QLe(x, y) == ~QLt(y, x)

QAdd(x, y) ==
  IF QIsBig(x) /\ QIsBig(y)
  THEN (IF (x[1] > 0) = (y[1] > 0) THEN x ELSE <<0, 1>>)
  ELSE IF QIsBig(x) THEN x
  ELSE IF QIsBig(y) THEN y
  ELSE QNorm(x[1] * y[2] + y[1] * x[2], x[2] * y[2])

QSub(x, y) == QAdd(x, QNeg(y))

QMul(x, y) == QNorm(x[1] * y[1], x[2] * y[2])

\* 1 / x, for x # 0
QInv(x) == IF QIsBig(x) THEN <<0, 1>> ELSE QNorm(x[2], x[1])

QMax(x, y) == IF QLt(x, y) THEN y ELSE x

\* x * DBL_EPSILON * c
QEps(x, c) == QMul(x, <<c, EpsInv>>)

(***************************************************************************)
(* The extrapolation table: ffi::extrapolation_table, n entries of rlist2  *)
(* (52 slots), the last three results res3la and the call counter nres.    *)
(***************************************************************************)
\* the slots of rlist2
TableSlots == 52

\* mem::zeroed() followed by initialise_table
initialise_table ==
  [n |-> 0, nres |-> 0, rlist2 |-> [k \in 0..(TableSlots - 1) |-> <<0, 1>>],
   res3la |-> [k \in 0..2 |-> <<0, 1>>]]

\* append_table
append_table(table, y) ==
  [table EXCEPT !.rlist2 = Wr(@, table.n, y), !.n = table.n + 1]

\* intern_qelg, the main loop: for i in range(0, newelm).  s holds epstab,
\* result, abserr, n_final and how the loop was left: "run" to its end,
\* "break", or "return" (convergence is assumed and the function returns).
RECURSIVE qelg_loop(_, _, _, _)
qelg_loop(s, i, newelm, n) ==
  IF i >= newelm THEN s
  ELSE
    LET epstab == s.epstab
        res0   == Rd(epstab, n - 2 * i + 2)
        e0     == Rd(epstab, n - 2 * i - 2)
        e1     == Rd(epstab, n - 2 * i - 1)
        e2     == res0
        e1abs  == QAbs(e1)
        delta2 == QSub(e2, e1)
        err2   == QAbs(delta2)
        tol2   == QEps(QMax(QAbs(e2), e1abs), 1)
        delta3 == QSub(e1, e0)
        err3   == QAbs(delta3)
        tol3   == QEps(QMax(e1abs, QAbs(e0)), 1)
    IN IF QLe(err2, tol2) /\ QLe(err3, tol3)
       THEN [s EXCEPT !.result = res0,
                      !.abserr = QMax(QAdd(err2, err3), QEps(QAbs(res0), 5)),
                      !.how = "return"]
       ELSE
         LET e3     == Rd(epstab, n - 2 * i)
             tab1   == Wr(epstab, n - 2 * i, e1)
             delta1 == QSub(e1, e3)
             err1   == QAbs(delta1)
             tol1   == QEps(QMax(e1abs, QAbs(e3)), 1)
         IN IF QLe(err1, tol1) \/ QLe(err2, tol2) \/ QLe(err3, tol3)
            THEN [s EXCEPT !.epstab = tab1, !.n_final = 2 * i, !.how = "break"]
            ELSE
              LET ss == QSub(QAdd(QInv(delta1), QInv(delta2)), QInv(delta3))
              IN IF QLe(QAbs(QMul(ss, e1)), <<1, 10000>>)
                 THEN [s EXCEPT !.epstab = tab1, !.n_final = 2 * i, !.how = "break"]
                 ELSE
                   LET res   == QAdd(e1, QInv(ss))
                       tab2  == Wr(tab1, n - 2 * i, res)
                       error == QAdd(QAdd(err2, QAbs(QSub(res, e2))), err3)
                   IN qelg_loop(IF QLe(error, s.abserr)
                                THEN [s EXCEPT !.epstab = tab2, !.abserr = error,
                                               !.result = res]
                                ELSE [s EXCEPT !.epstab = tab2],
                                i + 1, newelm, n)

\* intern_qelg, "shift the table": epstab[base + 2 i] = epstab[base + 2 i + 2]
\* for i in range(0, newelm + 1), base = 1 for an odd n and 0 for an even n
RECURSIVE qelg_shift(_, _, _, _)
qelg_shift(epstab, i, newelm, base) ==
  IF i >= newelm + 1 THEN epstab
  ELSE qelg_shift(Wr(epstab, base + i * 2, Rd(epstab, base + i * 2 + 2)),
                  i + 1, newelm, base)

\* intern_qelg: epstab[i] = epstab[n_orig - n_final + i] for i in range(0, n_final + 1)
RECURSIVE qelg_compact(_, _, _, _)
qelg_compact(epstab, i, n_orig, n_final) ==
  IF i >= n_final + 1 THEN epstab
  ELSE qelg_compact(Wr(epstab, i, Rd(epstab, n_orig - n_final + i)),
                    i + 1, n_orig, n_final)

\* the historical cap on the table: limexp
limexp == 49

\* intern_qelg without the cap on n_final
intern_qelg_uncapped(table) ==
  LET n       == USub(table.n, 1)
      current == Rd(table.rlist2, n)
      relative == QEps(QAbs(current), 5)
  IN IF n < 2
     THEN [table |-> table, result |-> current, abserr |-> QMax(QBig, relative),
           epstab |-> table.rlist2, res3la |-> table.res3la]
     ELSE
       LET newelm == n \div 2
           tab0 == Wr(Wr(table.rlist2, n + 2, Rd(table.rlist2, n)), n, QBig)
           s == qelg_loop([epstab |-> tab0, result |-> current, abserr |-> QBig,
                           n_final |-> n, how |-> "run"], 0, newelm, n)
       IN IF s.how = "return"
          THEN [table |-> table, result |-> s.result, abserr |-> s.abserr,
                epstab |-> s.epstab, res3la |-> table.res3la]
          ELSE
            LET n_final == s.n_final
                res3la  == table.res3la
                shifted == qelg_shift(s.epstab, 0, newelm, n % 2)
                epstab  == IF n # n_final THEN qelg_compact(shifted, 0, n, n_final)
                           ELSE shifted
                res3la1 == IF table.nres < 3 THEN Wr(res3la, table.nres, s.result)
                           ELSE [k \in 0..2 |-> IF k < 2 THEN res3la[k + 1] ELSE s.result]
                abserr1 == IF table.nres < 3 THEN QBig
                           ELSE QAdd(QAdd(QAbs(QSub(s.result, res3la[2])),
                                          QAbs(QSub(s.result, res3la[1]))),
                                     QAbs(QSub(s.result, res3la[0])))
            IN [table  |-> [table EXCEPT !.n = n_final + 1, !.nres = table.nres + 1],
                result |-> s.result,
                abserr |-> QMax(abserr1, QEps(QAbs(s.result), 5)),
                epstab |-> epstab, res3la |-> res3la1]

\* intern_qelg.  "let mut epstab = (*table).rlist2" and "let mut res3la =
\* (*table).res3la" copy the table's fixed-size arrays: the function works on
\* the copies epstab and res3la, which end with it, and changes only n and
\* nres of the table itself.
intern_qelg(table) ==
  LET n       == USub(table.n, 1)
      current == Rd(table.rlist2, n)
      relative == QEps(QAbs(current), 5)
  IN IF n < 2
     THEN [table |-> table, result |-> current, abserr |-> QMax(QBig, relative),
           epstab |-> table.rlist2, res3la |-> table.res3la]
     ELSE
       LET newelm == n \div 2
           tab0 == Wr(Wr(table.rlist2, n + 2, Rd(table.rlist2, n)), n, QBig)
           s == qelg_loop([epstab |-> tab0, result |-> current, abserr |-> QBig,
                           n_final |-> n, how |-> "run"], 0, newelm, n)
       IN IF s.how = "return"
          THEN [table |-> table, result |-> s.result, abserr |-> s.abserr,
                epstab |-> s.epstab, res3la |-> table.res3la]
          ELSE
            LET n_final == IF s.n_final = limexp THEN 2 * (limexp \div 2) ELSE s.n_final
                res3la  == table.res3la
                shifted == qelg_shift(s.epstab, 0, newelm, n % 2)
                epstab  == IF n # n_final THEN qelg_compact(shifted, 0, n, n_final)
                           ELSE shifted
                res3la1 == IF table.nres < 3 THEN Wr(res3la, table.nres, s.result)
                           ELSE [k \in 0..2 |-> IF k < 2 THEN res3la[k + 1] ELSE s.result]
                abserr1 == IF table.nres < 3 THEN QBig
                           ELSE QAdd(QAdd(QAbs(QSub(s.result, res3la[2])),
                                          QAbs(QSub(s.result, res3la[1]))),
                                     QAbs(QSub(s.result, res3la[0])))
            IN [table  |-> [table EXCEPT !.n = n_final + 1, !.nres = table.nres + 1],
                result |-> s.result,
                abserr |-> QMax(abserr1, QEps(QAbs(s.result), 5)),
                epstab |-> epstab, res3la |-> res3la1]

(***************************************************************************)
(* The quadrature kernel and the numeric tests of the drivers.             *)
(***************************************************************************)
\* a value of resabs large enough for 50 * DBL_EPSILON * resabs to reach MaxErr
BigAbs == 100

\* What one call q(f, arg, a, b, ..) may give back: result, abserr, resabs,
\* resasc.  q is a parameter of the drivers; three families of it:
\*  "wide"   any result in 0..MaxArea and any abserr in 0..MaxErr, resasc equal
\*           to abserr or not, resabs equal to |result| or large (the first
\*           integration only: the loops never read resabs);
\*  "plain"  the exact integral of the integrand 1: result = resabs = b - a,
\*           any abserr in 0..MaxErr, resasc different from abserr;
\*  "tight"  as "plain", with a result that is off by its error estimate;
\*  "swell"  as "tight", with the error estimate MaxErr for every interval:
\*           the errors of two halves always sum to more than the error of
\*           the interval they halve;
\*  "edge"   as "tight", with the error estimate MaxErr for the intervals
\*           that start at 0 and 0 for the others (a difficulty at 0).
\*  "same"   as "plain", with resasc equal to abserr or not.
\* "swell" and "edge" give one result for an interval: pure kernels.
KernelOut(kernel, a, b, first) ==
  IF kernel = "same"
  THEN { [result |-> b - a, abserr |-> e, resabs |-> Abs(b - a),
          resasc |-> IF same THEN e ELSE e + 1] :
           e \in 0..MaxErr, same \in BOOLEAN }
  ELSE IF kernel = "wide"
  THEN { [result |-> r, abserr |-> e, resabs |-> IF big THEN BigAbs ELSE r,
          resasc |-> IF same THEN e ELSE e + 1] :
           r \in 0..MaxArea, e \in 0..MaxErr,
           big \in (IF first THEN BOOLEAN ELSE {FALSE}), same \in BOOLEAN }
  ELSE IF kernel = "plain"
  THEN { [result |-> b - a, abserr |-> e, resabs |-> Abs(b - a), resasc |-> e + 1] :
           e \in 0..MaxErr }
  ELSE { [result |-> b - a + e, abserr |-> e, resabs |-> Abs(b - a + e),
          resasc |-> e + 1] :
           e \in (IF kernel = "swell" THEN {MaxErr}
                  ELSE IF kernel = "edge" THEN {IF a = 0 THEN MaxErr ELSE 0}
                  ELSE 0..MaxErr) }

\* 0.5 * (a + b): exact when a + b is even, else the nearer even neighbour
\* (round to nearest, ties to even)
Mid(a, b) ==
  LET sum == a + b
      fl  == sum \div 2
  IN IF sum % 2 = 0 THEN fl ELSE IF fl % 2 = 0 THEN fl ELSE fl + 1

\* ::util::subinterval_too_small: |a1| <= tmp && |b2| <= tmp, with
\* tmp = (1 + 100 eps) (|a2| + 1000 DBL_MIN); the two margins lie below the unit
subinterval_too_small(a1, a2, b2) == Abs(a1) <= Abs(a2) /\ Abs(b2) <= Abs(a2)

\* epsabs <= 0 && (epsrel < 50 * DBL_EPSILON || epsrel < 0.5e-28)
tolerance_unreachable(epsabs, epsrel) ==
  epsabs <= 0 /\ (epsrel * EpsInv < 50 \/ epsrel <= 0)

\* epsabs.max(epsrel * fabsf64(area))
tolerance_of(epsabs, epsrel, area) == Max2(epsabs, epsrel * Abs(area))

\* fabsf64(delta) <= 1.0e-5 * fabsf64(area12) && error12 >= 0.99 * e_i
roundoff_pattern(delta, area12, error12, e_i) ==
  Abs(delta) * 100000 <= Abs(area12) /\ error12 * 100 >= 99 * e_i

\* test_positivity: |result| >= (1 - 50 * DBL_EPSILON) * resabs
test_positivity(result, resabs) == Abs(result) * EpsInv >= (EpsInv - 50) * resabs

(***************************************************************************)
(* The state of one driver call.                                           *)
(*   in    the arguments of the call and the family of the kernel          *)
(*   w     the workspace                                                   *)
(*   table the extrapolation table                                         *)
(*   d     the local variables of the driver                               *)
(*   out   *result, *abserr, the returned status, the codes given to       *)
(*         rgsl_error                                                      *)
(*   pc    "start", "loop", and the ends "done", "aborted" (the error      *)
(*         handler ended the process), "panicked" (a bounds check failed)  *)
(*         and "ub" (an access outside the allocated lists)                *)
(*   g     what the run did: kernel calls, loop bodies entered, bounds     *)
(*         checks that failed and were passed over, whether the error      *)
(*         handler was seen to return, and for qag the loop bodies that    *)
(*         showed the early and the late pattern of roundoff               *)
(*         (early, late), whether an unsigned subtraction of qpsrt went    *)
(*         below zero (wrap), what the kernel gave for the seeding of      *)
(*         qagp in the step that has just ended (seed), and the calls of   *)
(*         intern_qelg (transforms)                                        *)
(*   prev  for a call that is repeated: which call of the sequence this is *)
(*         (run), the arguments of the call that is repeated (target) and  *)
(*         what its first run gave (first)                                 *)
(***************************************************************************)
VARIABLES in, w, table, d, out, pc, g, prev

vars == <<in, w, table, d, out, pc, g, prev>>

Drivers == {"qag", "qags", "qagp"}

\* (a, b) of qag and qags
Intervals == { <<0, 8>>, <<0, 4>>, <<1, 2>> }

\* pts of qagp
PtsLists == { <<0, 8>>, <<0, 4, 8>>, <<1, 2>>, <<4, 0, 8>> }

\* (epsabs, epsrel)
Tols == { <<0, 0>>, <<1, 0>>, <<0, 1>> }

\* the limits tried with the "wide" kernel, and the loop bodies followed
WideLimit == 2
WideIters == 2

\* the limits tried with the tolerances (0, 0) and (0, 1)
SmallLimit == 3

LimitsOf(kernel, t) ==
  IF kernel = "wide" THEN 1..WideLimit
  ELSE IF t = <<1, 0>> THEN 1..(Capacity + 1)
  ELSE 1..SmallLimit

Input(dr, kernel, ab, p, t, l) ==
  [driver |-> dr, kernel |-> kernel, a |-> ab[1], b |-> ab[2], pts |-> p,
   epsabs |-> t[1], epsrel |-> t[2], limit |-> l]

\* the limits tried with the "tight" kernel
TightLimits == 3..Capacity

Inputs ==
  UNION { { Input(dr, "plain", ab, <<>>, t, l) : l \in LimitsOf("plain", t) } :
            dr \in {"qag", "qags"}, ab \in Intervals, t \in Tols }
  \cup
  UNION { { Input("qagp", "plain", <<0, 0>>, p, t, l) : l \in LimitsOf("plain", t) } :
            p \in PtsLists, t \in Tols }
  \cup
  { Input(dr, "wide", <<0, 8>>, <<>>, t, l) :
      dr \in {"qag", "qags"}, t \in Tols, l \in 1..WideLimit }
  \cup
  { Input("qagp", "wide", <<0, 0>>, <<0, 8>>, t, l) : t \in Tols, l \in 1..WideLimit }
  \cup
  { Input(dr, "tight", <<0, 8>>, <<>>, <<1, 0>>, l) :
      dr \in {"qag", "qags"}, l \in TightLimits }
  \cup
  { Input("qagp", "tight", <<0, 0>>, p, <<1, 0>>, l) :
      p \in {<<0, 8>>, <<0, 4, 8>>}, l \in TightLimits }
  \cup
  { Input("qag", "swell", <<0, 8>>, <<>>, <<1, 0>>, Capacity) }

\* the loop bodies followed in a run with the "swell" kernel
LateIters == 30

\* the loop bodies followed in one run
IterBound ==
  IF in.kernel = "wide" THEN WideIters
  ELSE IF in.kernel = "swell" THEN LateIters
  ELSE MaxIters

\* the locals of a driver before its first statement
Locals0 ==
  [area |-> 0, errsum |-> 0, tolerance |-> 0, iteration |-> 0,
   roundoff_type1 |-> 0, roundoff_type2 |-> 0, roundoff_type3 |-> 0,
   error_type |-> 0, error_type2 |-> 0,
   result0 |-> 0, abserr0 |-> 0, resabs0 |-> 0, resasc0 |-> 0, nint |-> 0,
   ertest |-> <<0, 1>>, error_over_large_intervals |-> 0,
   reseps |-> <<0, 1>>, abseps |-> <<0, 1>>, correc |-> 0, ktmin |-> 0,
   res_ext |-> <<0, 1>>, err_ext |-> <<0, 1>>,
   extrapolate |-> 0, disallow_extrapolation |-> 0, positive_integrand |-> FALSE]

\* *result, *abserr and the status before a call, nothing raised
Out0 == [result |-> <<0, 1>>, abserr |-> <<0, 1>>, status |-> "none", raised |-> <<>>]

\* what a call leaves: the three outputs and the workspace, of its lists the
\* entries of the subintervals 0..size-1
Outcome ==
  [result |-> out.result, abserr |-> out.abserr, status |-> out.status,
   size |-> w.size, i |-> w.i, nrmax |-> w.nrmax, maximum_level |-> w.maximum_level,
   lists |-> [k \in 1..w.size |->
                <<Rd(w.alist, k - 1), Rd(w.blist, k - 1), Rd(w.rlist, k - 1),
                  Rd(w.elist, k - 1), Rd(w.order, k - 1), Rd(w.level, k - 1)>>]]

\* no call has ended
NoOutcome ==
  [result |-> <<0, 1>>, abserr |-> <<0, 1>>, status |-> "none",
   size |-> 0, i |-> 0, nrmax |-> 0, maximum_level |-> 0, lists |-> <<>>]

\* a driver before its first statement
Entry ==
  /\ table = initialise_table
  /\ d = Locals0
  /\ out = Out0
  /\ pc = "start"
  /\ g = [qcalls |-> 0, iters |-> 0, oob |-> FALSE, handler |-> "unknown",
          early |-> 0, late |-> 0, wrap |-> FALSE,
          seed |-> <<>>, transforms |-> 0, exit_type |-> -1]

Init ==
  /\ in \in Inputs
  /\ w = NewWorkspace(Capacity)
  /\ Entry
  /\ prev = [run |-> "single", target |-> in, first |-> NoOutcome]

(***************************************************************************)
(* How a step of a driver ends.  st is the state the code reaches when     *)
(* every statement of the step is executed: [w, table, d, out, pc, qcalls, *)
(* bad, raise], where raise is the sequence of codes the step gives to     *)
(* rgsl_error and bad the worst access of the step (see Chk).              *)
(*  - rgsl_error calls gsl_error and does not return from the driver: with *)
(*    GSL's default handler the process ends at the first call, with a     *)
(*    handler that returns the driver goes on with the next statement.     *)
(*  - An access outside the allocation ends the run in "ub".               *)
(*  - An index beyond its view fails the bounds check of the slice: the    *)
(*    run panics.  The step is also followed as if the view had the length *)
(*    of the list behind it, and g.oob records that a check was passed     *)
(*    over.                                                                *)
(***************************************************************************)
Finish(st, body) ==
  LET g1 == [g EXCEPT !.qcalls = st.qcalls, !.iters = @ + body,
                      !.early = @ + st.early, !.late = @ + st.late,
                      !.wrap = @ \/ st.wrap, !.seed = st.seed,
                      !.transforms = @ + st.qelg,
                      !.exit_type = st.exit_type]
  IN \/ /\ st.raise # <<>>
        /\ g.handler = "unknown"
        /\ pc' = "aborted"
        /\ prev' = prev
        /\ out' = [out EXCEPT !.raised = @ \o <<Head(st.raise)>>]
        \* Inval and BadTol are raised by the parameter tests, before the
        \* first kernel call; every other code after the last of the step
        /\ g' = IF Head(st.raise) \in {"Inval", "BadTol"} THEN g
                ELSE [g1 EXCEPT !.oob = @ \/ (st.bad >= 1)]
        /\ UNCHANGED <<in, w, table, d>>
     \/ /\ st.bad = 2
        /\ pc' = "ub"
        /\ g' = [g1 EXCEPT !.wrap = g.wrap, !.transforms = g.transforms,
                          !.exit_type = g.exit_type]
        /\ UNCHANGED <<in, w, table, d, out, prev>>
     \/ /\ st.bad = 1
        /\ pc' = "panicked"
        \* the scans of qpsrt index order before they subtract, and update
        \* comes before the extrapolation
        /\ g' = [g1 EXCEPT !.wrap = g.wrap, !.transforms = g.transforms,
                          !.exit_type = g.exit_type]
        /\ UNCHANGED <<in, w, table, d, out, prev>>
     \/ /\ st.bad < 2
        /\ w' = st.w
        /\ table' = st.table
        /\ d' = st.d
        /\ out' = [st.out EXCEPT !.raised = @ \o st.raise]
        /\ pc' = st.pc
        /\ g' = [g1 EXCEPT !.oob = @ \/ (st.bad = 1),
                           !.handler = IF st.raise # <<>> THEN "return" ELSE @]
        /\ UNCHANGED <<in, prev>>

\* the step record of a driver
Step(w1, table1, d1, out1, pc1, calls, bad, raise) ==
  [w |-> w1, table |-> table1, d |-> d1, out |-> out1, pc |-> pc1,
   qcalls |-> g.qcalls + calls, bad |-> bad, raise |-> raise,
   early |-> 0, late |-> 0, wrap |-> FALSE,
   seed |-> <<>>, qelg |-> 0, exit_type |-> -1]

(***************************************************************************)
(* intern_qag                                                              *)
(***************************************************************************)
\* from the entry of intern_qag to the loop: parameter tests, the first
\* integration over (a, b), the test on accuracy
qag_start(k) ==
  LET w0        == initialise(w, in.a, in.b)
      raise0    == (IF in.limit > w.limit THEN <<"Inval">> ELSE <<>>)
                   \o (IF tolerance_unreachable(in.epsabs, in.epsrel)
                       THEN <<"BadTol">> ELSE <<>>)
      w1        == set_initial_result(w0.w, k.result, k.abserr)
      tolerance == tolerance_of(in.epsabs, in.epsrel, k.result)
      \* abserr0 <= 50 * DBL_EPSILON * resabs0
      round_off == k.abserr * EpsInv <= 50 * k.resabs
      first     == [out EXCEPT !.result = ToQ(k.result), !.abserr = ToQ(k.abserr)]
      d1        == [d EXCEPT !.area = k.result, !.errsum = k.abserr,
                             !.tolerance = tolerance, !.iteration = 1,
                             !.result0 = k.result, !.abserr0 = k.abserr,
                             !.resabs0 = k.resabs, !.resasc0 = k.resasc]
      st        == Step(w1.w, table, d1, out, "loop", 1, Max2(w0.bad, w1.bad), raise0)
  IN IF round_off /\ k.abserr > tolerance
     THEN [st EXCEPT !.out = first, !.raise = raise0 \o <<"Round">>]
     ELSE IF (k.abserr <= tolerance /\ k.abserr # k.resasc) \/ k.abserr = 0
     THEN [st EXCEPT !.out = [first EXCEPT !.status = "Success"], !.pc = "done"]
     ELSE IF in.limit = 1
     THEN [st EXCEPT !.out = first, !.raise = raise0 \o <<"MaxIter">>]
     ELSE st

\* the returns after the loop of intern_qag
qag_return(st, errsum, tolerance, error_type, iteration) ==
  LET o  == [st.out EXCEPT !.result = ToQ(sum_results(st.w)), !.abserr = ToQ(errsum)]
      status == IF errsum <= tolerance THEN "Success"
                ELSE IF error_type = 2 THEN "Round"
                ELSE IF error_type = 3 THEN "Sing"
                ELSE IF iteration = in.limit THEN "MaxIter"
                ELSE "Failed"
  IN [st EXCEPT !.out = [o EXCEPT !.status = status], !.pc = "done",
                !.raise = IF status = "Success" THEN <<>> ELSE <<status>>]

\* one execution of the loop body of intern_qag for the kernel results k1 and
\* k2 of the two halves, with the returns that follow the loop when the body
\* leaves it
qag_body(r, k1, k2) ==
  LET a1      == r.a
      b1      == Mid(r.a, r.b)
      a2      == b1
      b2      == r.b
      area12  == k1.result + k2.result
      error12 == k1.abserr + k2.abserr
      errsum  == d.errsum + (error12 - r.e)
      area    == d.area + (area12 - r.r)
      counted == k1.resasc # k1.abserr /\ k2.resasc # k2.abserr
      delta   == r.r - area12
      rt1     == IF counted /\ roundoff_pattern(delta, area12, error12, r.e)
                 THEN d.roundoff_type1 + 1 ELSE d.roundoff_type1
      rt2     == IF counted /\ d.iteration >= 10 /\ error12 > r.e
                 THEN d.roundoff_type2 + 1 ELSE d.roundoff_type2
      tolerance == tolerance_of(in.epsabs, in.epsrel, area)
      et1     == IF errsum > tolerance /\ (rt1 >= 6 \/ rt2 >= 20) THEN 2 ELSE d.error_type
      error_type == IF errsum > tolerance /\ subinterval_too_small(a1, a2, b2)
                    THEN 3 ELSE et1
      d1      == [d EXCEPT !.area = area, !.errsum = errsum, !.tolerance = tolerance,
                           !.roundoff_type1 = rt1, !.roundoff_type2 = rt2,
                           !.error_type = error_type]
      \* the patterns as the loop bodies show them: the late one from the
      \* tenth body on
      early   == counted /\ errsum > tolerance
                 /\ roundoff_pattern(delta, area12, error12, r.e)
      late    == counted /\ errsum > tolerance /\ g.iters + 1 >= 10 /\ error12 > r.e
      st      == [Step(w, table, d1, out, "loop", 2, r.bad, <<>>)
                    EXCEPT !.early = IF early THEN 1 ELSE 0,
                           !.late = IF late THEN 1 ELSE 0]
  IN IF d.iteration < in.limit /\ error_type = 0 /\ errsum > tolerance
     THEN st
     ELSE qag_return(st, errsum, tolerance, error_type, d.iteration)

QagStart ==
  /\ pc = "start"
  /\ in.driver = "qag"
  /\ \E k \in KernelOut(in.kernel, in.a, in.b, TRUE) : Finish(qag_start(k), 0)

\* the two halves of the subinterval r
Halves(r) == [a1 |-> r.a, b1 |-> Mid(r.a, r.b), a2 |-> Mid(r.a, r.b), b2 |-> r.b]

QagIterate ==
  /\ pc = "loop"
  /\ in.driver = "qag"
  /\ g.iters < IterBound
  /\ LET r == retrieve(w)
         h == Halves(r)
     IN \E k1 \in KernelOut(in.kernel, h.a1, h.b1, FALSE),
           k2 \in KernelOut(in.kernel, h.a2, h.b2, FALSE) :
          Finish(qag_body(r, k1, k2), 1)

(***************************************************************************)
(* intern_qags and intern_qagp.  The two drivers share return_error,       *)
(* compute_result, and, statement for statement, the extrapolation part of *)
(* the loop and the code after the loop; where they differ the model asks  *)
(* in.driver.                                                              *)
(***************************************************************************)
\* return_error: the status for an error type
return_error(t_error_type) ==
  LET error_type == IF t_error_type > 2 THEN t_error_type - 1 ELSE t_error_type
  IN IF error_type = 0 THEN "Success"
     ELSE IF error_type = 1 THEN "MaxIter"
     ELSE IF error_type = 2 THEN "Round"
     ELSE IF error_type = 3 THEN "Sing"
     ELSE IF error_type = 4 THEN "Round"
     ELSE IF error_type = 5 THEN "Round"
     ELSE "Failed"

\* "return return_error(error_type)" at the end of the step st
Return(st, error_type) ==
  LET status == return_error(error_type)
  IN [st EXCEPT !.out = [@ EXCEPT !.status = status], !.pc = "done",
                !.d = [@ EXCEPT !.error_type = error_type],
                !.raise = @ \o (IF status = "Success" THEN <<>> ELSE <<status>>)]

\* "return compute_result(f_w, result, abserr, errsum, error_type)"
compute_result(st, errsum, error_type) ==
  Return([st EXCEPT !.out = [@ EXCEPT !.result = ToQ(sum_results(st.w)),
                                      !.abserr = ToQ(errsum)]],
         error_type)

\* res_ext / area < 0.01 in f64: a zero area gives an infinite ratio or NaN
ratio_small(res_ext, area) ==
  IF area > 0 THEN QLt(res_ext, <<area, 100>>)
  ELSE IF area < 0 THEN QLt(<<area, 100>>, res_ext)
  ELSE res_ext[1] < 0

\* res_ext / area > 100
ratio_large(res_ext, area) ==
  IF area > 0 THEN QLt(ToQ(100 * area), res_ext)
  ELSE IF area < 0 THEN QLt(res_ext, ToQ(100 * area))
  ELSE res_ext[1] > 0

\* a tail that keeps every accepted estimate, whatever the flags
ext_tail_keep(st) ==
  LET x   == st.d
      st1 == [st EXCEPT !.out = [@ EXCEPT !.result = x.res_ext, !.abserr = x.err_ext],
                        !.exit_type = x.error_type]
  IN IF x.err_ext = QBig THEN compute_result(st1, x.errsum, x.error_type)
     ELSE Return(st1, x.error_type)

\* the code after the loop: the choice between the extrapolated result and
\* the sum of the subinterval results, the test on divergence
ext_tail(st) ==
  LET x        == st.d
      st1      == [st EXCEPT !.out = [@ EXCEPT !.result = x.res_ext, !.abserr = x.err_ext],
                             !.exit_type = x.error_type]
      flagged  == x.error_type # 0 \/ x.error_type2 # 0
      err_ext  == IF flagged /\ x.error_type2 # 0 THEN QAdd(x.err_ext, ToQ(x.correc))
                  ELSE x.err_ext
      et       == IF flagged /\ x.error_type = 0 THEN 3 ELSE x.error_type
      both     == x.res_ext[1] # 0 /\ x.area # 0
      diverges == ratio_small(x.res_ext, x.area) \/ ratio_large(x.res_ext, x.area)
                  \/ x.errsum > Abs(x.area)
  IN IF x.err_ext = QBig
     THEN compute_result(st1, x.errsum, x.error_type)
     ELSE IF flagged /\ both
             /\ QLt(QMul(ToQ(x.errsum), QAbs(x.res_ext)), QMul(err_ext, ToQ(Abs(x.area))))
     THEN compute_result(st1, x.errsum, et)
     ELSE IF flagged /\ ~both /\ QLt(ToQ(x.errsum), err_ext)
     THEN compute_result(st1, x.errsum, et)
     ELSE IF flagged /\ ~both /\ x.area = 0
     THEN Return(st1, et)
     ELSE IF ~x.positive_integrand
             /\ QLt(QMax(QAbs(x.res_ext), ToQ(Abs(x.area))), <<x.resabs0, 100>>)
     THEN Return(st1, et)
     ELSE Return(st1, IF diverges THEN 6 ELSE et)

\* the end of the loop body: "work on interval with largest error"
ext_reset(st) ==
  LET st1 == [st EXCEPT !.w = reset_nrmax(st.w),
                        !.d = [@ EXCEPT !.extrapolate = 0,
                                        !.error_over_large_intervals = st.d.errsum]]
  IN IF st.d.iteration >= in.limit THEN ext_tail(st1) ELSE st1

\* the tests on the extrapolated result with the stall raised after 5
\* transforms
ext_accept_eager(st, q) ==
  LET ktmin  == st.d.ktmin + 1
      et     == IF ktmin > 4 /\ QLt(st.d.err_ext, <<st.d.errsum, 1000>>)
                THEN 5 ELSE st.d.error_type
      better == QLt(q.abserr, st.d.err_ext)
      ertest == QMax(ToQ(in.epsabs), QMul(ToQ(in.epsrel), QAbs(q.result)))
      dD     == [st.d EXCEPT !.reseps = q.result, !.abseps = q.abserr,
                             !.error_type = et,
                             !.ktmin = IF better THEN 0 ELSE ktmin,
                             !.err_ext = IF better THEN q.abserr ELSE @,
                             !.res_ext = IF better THEN q.result ELSE @,
                             !.correc = IF better THEN st.d.error_over_large_intervals
                                        ELSE @,
                             !.ertest = IF better THEN ertest ELSE @,
                             !.disallow_extrapolation =
                                IF q.table.n = 1 /\ ~(better /\ QLe(q.abserr, ertest))
                                THEN 1 ELSE @]
      stD    == [st EXCEPT !.table = q.table, !.d = dD]
  IN IF better /\ QLe(q.abserr, ertest) THEN ext_tail(stD)
     ELSE IF et = 5 THEN ext_tail(stD)
     ELSE ext_reset(stD)

\* the tests on the extrapolated result with a counter that is never reset
ext_accept_sticky(st, q) ==
  LET ktmin  == st.d.ktmin + 1
      et     == IF ktmin > 5 /\ QLt(st.d.err_ext, <<st.d.errsum, 1000>>)
                THEN 5 ELSE st.d.error_type
      better == QLt(q.abserr, st.d.err_ext)
      ertest == QMax(ToQ(in.epsabs), QMul(ToQ(in.epsrel), QAbs(q.result)))
      dD     == [st.d EXCEPT !.reseps = q.result, !.abseps = q.abserr,
                             !.error_type = et,
                             !.ktmin = ktmin,
                             !.err_ext = IF better THEN q.abserr ELSE @,
                             !.res_ext = IF better THEN q.result ELSE @,
                             !.correc = IF better THEN st.d.error_over_large_intervals
                                        ELSE @,
                             !.ertest = IF better THEN ertest ELSE @,
                             !.disallow_extrapolation =
                                IF q.table.n = 1 /\ ~(better /\ QLe(q.abserr, ertest))
                                THEN 1 ELSE @]
      stD    == [st EXCEPT !.table = q.table, !.d = dD]
  IN IF better /\ QLe(q.abserr, ertest) THEN ext_tail(stD)
     ELSE IF et = 5 THEN ext_tail(stD)
     ELSE ext_reset(stD)

\* "Perform extrapolation", after intern_qelg has given q: the tests on the
\* extrapolated result
ext_accept(st, q) ==
  LET ktmin  == st.d.ktmin + 1
      et     == IF ktmin > 5 /\ QLt(st.d.err_ext, <<st.d.errsum, 1000>>)
                THEN 5 ELSE st.d.error_type
      better == QLt(q.abserr, st.d.err_ext)
      ertest == QMax(ToQ(in.epsabs), QMul(ToQ(in.epsrel), QAbs(q.result)))
      dD     == [st.d EXCEPT !.reseps = q.result, !.abseps = q.abserr,
                             !.error_type = et,
                             !.ktmin = IF better THEN 0 ELSE ktmin,
                             !.err_ext = IF better THEN q.abserr ELSE @,
                             !.res_ext = IF better THEN q.result ELSE @,
                             !.correc = IF better THEN st.d.error_over_large_intervals
                                        ELSE @,
                             !.ertest = IF better THEN ertest ELSE @,
                             !.disallow_extrapolation =
                                IF q.table.n = 1 /\ ~(better /\ QLe(q.abserr, ertest))
                                THEN 1 ELSE @]
      stD    == [st EXCEPT !.table = q.table, !.d = dD]
  IN IF better /\ QLe(q.abserr, ertest) THEN ext_tail(stD)
     ELSE IF et = 5 THEN ext_tail(stD)
     ELSE ext_reset(stD)

\* "Perform extrapolation": append_table, then intern_qelg (in qagp only for a
\* table of more than two entries)
ext_table(st) ==
  IF in.driver = "qagp" /\ ~(st.table.n + 1 > 2)
  THEN ext_reset([st EXCEPT !.table = append_table(st.table, ToQ(st.d.area))])
  ELSE ext_accept([st EXCEPT !.table = append_table(st.table, ToQ(st.d.area)),
                             !.qelg = 1],
                  intern_qelg(append_table(st.table, ToQ(st.d.area))))

\* the loop body after the test of large_interval: increase_nrmax has given
\* inc, or was not called
ext_advance(st, inc) ==
  IF inc.ret
  THEN [st EXCEPT !.w = inc.w, !.d = [@ EXCEPT !.extrapolate = 1],
                  !.bad = Max2(@, inc.bad)]
  ELSE ext_table([st EXCEPT !.w = inc.w, !.d = [@ EXCEPT !.extrapolate = 1],
                            !.bad = Max2(@, inc.bad)])

\* the loop body from "error_over_large_intervals += -last_e_i" on
ext_extrapolate(st, last_e_i, error12, current_level) ==
  LET eoli   == st.d.error_over_large_intervals - last_e_i
                + (IF current_level < st.w.maximum_level THEN error12 ELSE 0)
      stA    == [st EXCEPT !.d = [@ EXCEPT !.error_over_large_intervals = eoli]]
      wB     == IF st.d.extrapolate = 0 THEN [st.w EXCEPT !.nrmax = 1] ELSE st.w
  IN IF st.d.extrapolate = 0 /\ large_interval(st.w)
     THEN stA
     ELSE ext_advance(stA, IF st.d.error_type2 = 0 /\ QLt(st.d.ertest, ToQ(eoli))
                           THEN increase_nrmax(wB)
                           ELSE [w |-> wB, ret |-> FALSE, bad |-> 0])

\* the loop body after update: the returns, the breaks, the continues.  st is
\* the step with the workspace and the locals as update leaves them.
ext_decide(st, last_e_i, error12, current_level) ==
  IF st.d.errsum <= st.d.tolerance
  THEN compute_result(st, st.d.errsum, st.d.error_type)
  ELSE IF st.d.error_type # 0
  THEN ext_tail(st)
  ELSE IF st.d.iteration >= USub(in.limit, 1)
  THEN ext_tail([st EXCEPT !.d = [@ EXCEPT !.error_type = 1]])
  ELSE IF in.driver = "qags" /\ st.d.iteration = 2
  THEN [st EXCEPT !.d = [@ EXCEPT !.error_over_large_intervals = st.d.errsum,
                                  !.ertest = ToQ(st.d.tolerance)],
                  !.table = append_table(st.table, ToQ(st.d.area))]
  ELSE IF st.d.disallow_extrapolation # 0
  THEN st
  ELSE ext_extrapolate(st, last_e_i, error12, current_level)

\* the locals after the two kernel calls of a loop body, before update
ext_locals(r, h, k1, k2) ==
  LET isP       == in.driver = "qagp"
      iteration == (d.iteration + 1) % Wrap
      area12    == k1.result + k2.result
      error12   == k1.abserr + k2.abserr
      counted   == k1.resasc # k1.abserr /\ k2.resasc # k2.abserr
      pattern   == counted /\ roundoff_pattern(r.r - area12, area12, error12, r.e)
      rt1       == IF pattern /\ d.extrapolate = 0
                   THEN d.roundoff_type1 + 1 ELSE d.roundoff_type1
      rt2       == IF pattern /\ d.extrapolate # 0
                   THEN d.roundoff_type2 + 1 ELSE d.roundoff_type2
      late      == IF isP THEN d.nint + 1 > 10 ELSE iteration > 10
      rt3       == IF counted /\ late /\ error12 > r.e
                   THEN d.roundoff_type3 + 1 ELSE d.roundoff_type3
  IN [d EXCEPT !.area = d.area + area12 - r.r,
               !.errsum = d.errsum + error12 - r.e,
               !.tolerance = tolerance_of(in.epsabs, in.epsrel, d.area + area12 - r.r),
               !.iteration = iteration,
               !.roundoff_type1 = rt1, !.roundoff_type2 = rt2, !.roundoff_type3 = rt3,
               !.error_type = IF subinterval_too_small(h.a1, h.a2, h.b2) THEN 4
                              ELSE IF rt1 + rt2 >= 10 \/ rt3 >= 20 THEN 2
                              ELSE d.error_type,
               !.error_type2 = IF rt2 >= 5 THEN 1 ELSE d.error_type2]

\* update as a step: u is what update gives, d1 the locals
ext_updated(u, d1, bad) ==
  [Step(u.w, table, d1, out, "loop", 2, Max2(bad, u.bad), <<>>) EXCEPT !.wrap = u.wrap]

\* one execution of the loop body of intern_qags or intern_qagp on the
\* subinterval r with halves h, for the kernel results k1 and k2.  qags views
\* level with length i + 1, qagp with the length nint of its view from before
\* the loop.
ext_body(r, h, k1, k2) ==
  ext_decide(ext_updated(update(w, h.a1, h.b1, k1.result, k1.abserr,
                                h.a2, h.b2, k2.result, k2.abserr),
                         ext_locals(r, h, k1, k2),
                         Max2(r.bad, Chk(w.i, IF in.driver = "qagp" THEN d.nint
                                              ELSE w.i + 1, w))),
             r.e, k1.abserr + k2.abserr, Rd(w.level, w.i) + 1)

\* from the entry of intern_qags to the loop
qags_start(k) ==
  LET w0        == initialise(w, in.a, in.b)
      raise0    == (IF in.limit > w.limit THEN <<"Inval">> ELSE <<>>)
                   \o (IF tolerance_unreachable(in.epsabs, in.epsrel)
                       THEN <<"BadTol">> ELSE <<>>)
      w1        == set_initial_result(w0.w, k.result, k.abserr)
      tolerance == tolerance_of(in.epsabs, in.epsrel, k.result)
      \* abserr0 <= 100 * DBL_EPSILON * resabs0
      round_off == k.abserr * EpsInv <= 100 * k.resabs
      zero      == [out EXCEPT !.result = <<0, 1>>, !.abserr = <<0, 1>>]
      first     == [out EXCEPT !.result = ToQ(k.result), !.abserr = ToQ(k.abserr)]
      d1        == [d EXCEPT !.area = k.result, !.errsum = k.abserr,
                             !.tolerance = tolerance, !.iteration = 1,
                             !.result0 = k.result, !.abserr0 = k.abserr,
                             !.resabs0 = k.resabs, !.resasc0 = k.resasc,
                             !.res_ext = ToQ(k.result), !.err_ext = QBig,
                             !.positive_integrand = test_positivity(k.result, k.resabs)]
      st        == Step(w1.w, append_table(initialise_table, ToQ(k.result)), d1, zero,
                        "loop", 1, Max2(w0.bad, w1.bad), raise0)
  IN IF round_off /\ k.abserr > tolerance
     THEN [st EXCEPT !.out = first, !.raise = raise0 \o <<"Round">>]
     ELSE IF (k.abserr <= tolerance /\ k.abserr # k.resasc) \/ k.abserr = 0
     THEN Step(w1.w, table,
               [d EXCEPT !.tolerance = tolerance, !.result0 = k.result,
                         !.abserr0 = k.abserr, !.resabs0 = k.resabs,
                         !.resasc0 = k.resasc],
               [first EXCEPT !.status = "Success"], "done", 1,
               Max2(w0.bad, w1.bad), raise0)
     ELSE IF in.limit = 1
     THEN [st EXCEPT !.out = first, !.raise = raise0 \o <<"MaxIter">>]
     ELSE st

QagsStart ==
  /\ pc = "start"
  /\ in.driver = "qags"
  /\ \E k \in KernelOut(in.kernel, in.a, in.b, TRUE) : Finish(qags_start(k), 0)

QagsIterate ==
  /\ pc = "loop"
  /\ in.driver = "qags"
  /\ g.iters < IterBound
  /\ LET r == retrieve(w)
         h == Halves(r)
     IN \E k1 \in KernelOut(in.kernel, h.a1, h.b1, FALSE),
           k2 \in KernelOut(in.kernel, h.a2, h.b2, FALSE) :
          Finish(ext_body(r, h, k1, k2), 1)

\* the parameter tests of intern_qagp, in the order of the code: the codes
\* given to rgsl_error
qagp_raise ==
  (IF in.limit > w.limit THEN <<"Inval">> ELSE <<>>)
  \o (IF Len(in.pts) > w.limit THEN <<"Inval">> ELSE <<>>)
  \o (IF tolerance_unreachable(in.epsabs, in.epsrel) THEN <<"BadTol">> ELSE <<>>)
  \o [j \in 1..Cardinality({i \in 1..(Len(in.pts) - 1) : in.pts[i + 1] < in.pts[i]})
        |-> "Inval"]

\* "Perform the first integration": for i in range(0, nint), with the kernel
\* results ks.  ndin is a view of level of length pts.len().
RECURSIVE qagp_seed(_, _, _, _)
qagp_seed(s, ks, i, nint) ==
  IF i >= nint THEN s
  ELSE qagp_seed(
         [w |-> [append_interval(s.w, in.pts[i + 1], in.pts[i + 2],
                                 ks[i + 1].result, ks[i + 1].abserr).w
                   EXCEPT !.level = Wr(@, i, IF ks[i + 1].abserr = ks[i + 1].resasc
                                                /\ ks[i + 1].abserr # 0
                                             THEN 1 ELSE 0)],
          bad |-> Max2(s.bad, Max2(Chk(s.w.size, s.w.size + 1, s.w),
                                   Chk(i, Len(in.pts), s.w))),
          result0 |-> s.result0 + ks[i + 1].result,
          abserr0 |-> s.abserr0 + ks[i + 1].abserr,
          resabs0 |-> s.resabs0 + ks[i + 1].resabs],
         ks, i + 1, nint)

\* A faulty qagp_errsum, to test the seeding: no error estimate is raised to
\* abserr0.
qagp_errsum_kept(s, nint) ==
  [w |-> [s.w EXCEPT !.level = [k \in DOMAIN @ |-> IF k < nint THEN 0 ELSE @[k]]],
   bad |-> Max2(s.bad, IF nint > s.w.limit THEN 2 ELSE 0),
   result0 |-> s.result0, abserr0 |-> s.abserr0, resabs0 |-> s.resabs0,
   errsum |-> SumTo(s.w.elist, Min2(nint, s.w.limit))]

\* "Compute the initial error estimate": elist[i] = abserr0 where ndin[i] is
\* set, errsum, level[i] = 0; the views have length nint
qagp_errsum(s, nint) ==
  [w |-> [s.w EXCEPT !.elist = [k \in DOMAIN @ |->
                                  IF k < nint /\ s.w.level[k] # 0 THEN s.abserr0 ELSE @[k]],
                     !.level = [k \in DOMAIN @ |-> IF k < nint THEN 0 ELSE @[k]]],
   bad |-> Max2(s.bad, IF nint > s.w.limit THEN 2 ELSE 0),
   result0 |-> s.result0, abserr0 |-> s.abserr0, resabs0 |-> s.resabs0,
   errsum |-> SumTo([k \in DOMAIN s.w.elist |->
                       IF k < nint /\ s.w.level[k] # 0 THEN s.abserr0 ELSE s.w.elist[k]],
                    Min2(nint, s.w.limit))]

\* f_w.sort_results() has given sr
qagp_sorted(s, sr) == [s EXCEPT !.w = sr.w, !.bad = Max2(@, sr.bad)]

\* "Test on accuracy" and "Initialization" of intern_qagp
qagp_test(s, nint, raise0) ==
  LET tolerance == tolerance_of(in.epsabs, in.epsrel, s.result0)
      first     == [out EXCEPT !.result = ToQ(s.result0), !.abserr = ToQ(s.abserr0)]
      d1        == [d EXCEPT !.area = s.result0, !.errsum = s.errsum,
                             !.tolerance = tolerance, !.iteration = USub(nint, 1),
                             !.result0 = s.result0, !.abserr0 = s.abserr0,
                             !.resabs0 = s.resabs0, !.nint = nint,
                             !.res_ext = ToQ(s.result0), !.err_ext = QBig,
                             !.error_over_large_intervals = s.errsum,
                             !.ertest = ToQ(tolerance),
                             !.positive_integrand =
                                test_positivity(s.result0, s.resabs0)]
      st        == Step(s.w, append_table(initialise_table, ToQ(s.result0)), d1,
                        [out EXCEPT !.result = <<0, 1>>, !.abserr = <<0, 1>>],
                        "loop", nint, s.bad, raise0)
  IN IF s.abserr0 * EpsInv <= 100 * s.resabs0 /\ s.abserr0 > tolerance
     THEN [st EXCEPT !.out = first, !.raise = raise0 \o <<"Round">>]
     ELSE IF s.abserr0 <= tolerance
     THEN Step(s.w, table,
               [d EXCEPT !.tolerance = tolerance, !.result0 = s.result0,
                         !.abserr0 = s.abserr0, !.resabs0 = s.resabs0, !.nint = nint,
                         !.errsum = s.errsum],
               [first EXCEPT !.status = "Success"], "done", nint, s.bad, raise0)
     ELSE IF in.limit = 1
     THEN [st EXCEPT !.out = first, !.raise = raise0 \o <<"MaxIter">>]
     ELSE st

\* from the entry of intern_qagp to the loop, for the kernel results ks of
\* the nint intervals between the points
qagp_start(ks, nint) ==
  qagp_test(
    qagp_sorted(
      qagp_errsum(qagp_seed([w |-> initialise(w, 0, 0).w, bad |-> 0, result0 |-> 0,
                             abserr0 |-> 0, resabs0 |-> 0], ks, 0, nint), nint),
      sort_results(
        qagp_errsum(qagp_seed([w |-> initialise(w, 0, 0).w, bad |-> 0, result0 |-> 0,
                               abserr0 |-> 0, resabs0 |-> 0], ks, 0, nint), nint).w)),
    nint, qagp_raise)

\* the kernel results of the intervals between the points: one per interval
SeedOutcomes ==
  LET nint == USub(Len(in.pts), 1)
      all  == UNION { KernelOut(in.kernel, in.pts[i], in.pts[i + 1], TRUE) : i \in 1..nint }
  IN { ks \in [1..nint -> all] :
         \A i \in 1..nint : ks[i] \in KernelOut(in.kernel, in.pts[i], in.pts[i + 1], TRUE) }

QagpStart ==
  /\ pc = "start"
  /\ in.driver = "qagp"
  /\ \E ks \in SeedOutcomes :
       Finish([qagp_start(ks, USub(Len(in.pts), 1)) EXCEPT !.seed = ks], 0)

QagpIterate ==
  /\ pc = "loop"
  /\ in.driver = "qagp"
  /\ g.iters < IterBound
  /\ LET r == retrieve(w)
         h == Halves(r)
     IN \E k1 \in KernelOut(in.kernel, h.a1, h.b1, FALSE),
           k2 \in KernelOut(in.kernel, h.a2, h.b2, FALSE) :
          Finish(ext_body(r, h, k1, k2), 1)

Next ==
  \/ QagStart
  \/ QagIterate
  \/ QagsStart
  \/ QagsIterate
  \/ QagpStart
  \/ QagpIterate

Spec == Init /\ [][Next]_vars

(***************************************************************************)
(* A call that is repeated.  The call prev.target runs on a new workspace  *)
(* ("first"); when it has returned it runs again, on another new workspace *)
(* ("fresh") or on the workspace as the calls before it left it ("reuse"), *)
(* with or without another call in between ("other").  The kernels of      *)
(* these calls are pure.                                                   *)
(***************************************************************************)
\* the value found in memory that was allocated and never written
Junk == 5

\* gsl_integration_workspace_alloc(n) sets limit, size and maximum_level and
\* nothing else: the lists, nrmax and i hold what the memory held
StaleWorkspace(n) ==
  [limit |-> n, size |-> 0, nrmax |-> Junk, i |-> Junk, maximum_level |-> 0,
   alist |-> [k \in 0..(n-1) |-> Junk], blist |-> [k \in 0..(n-1) |-> Junk],
   rlist |-> [k \in 0..(n-1) |-> Junk], elist |-> [k \in 0..(n-1) |-> Junk],
   order |-> [k \in 0..(n-1) |-> Junk], level |-> [k \in 0..(n-1) |-> Junk]]

\* the calls that are repeated
ReplayInputs ==
  { Input(dr, kernel, <<0, 8>>, <<>>, t, l) :
      dr \in {"qag", "qags"}, kernel \in {"swell", "edge"},
      t \in {<<1, 0>>, <<0, 1>>}, l \in 1..Capacity }
  \cup
  { Input("qagp", kernel, <<0, 0>>, p, t, l) :
      kernel \in {"swell", "edge"}, p \in {<<0, 8>>, <<0, 4, 8>>},
      t \in {<<1, 0>>, <<0, 1>>}, l \in 1..Capacity }

InitReplay ==
  /\ in \in ReplayInputs
  /\ w = NewWorkspace(Capacity)
  /\ Entry
  /\ prev = [run |-> "first", target |-> in, first |-> NoOutcome]

\* the entry of the next call of the sequence, with the arguments x
Reenter(x, run) ==
  /\ in' = x
  /\ table' = initialise_table
  /\ d' = Locals0
  /\ out' = Out0
  /\ pc' = "start"
  /\ g' = [g EXCEPT !.qcalls = 0, !.iters = 0, !.early = 0, !.late = 0, !.wrap = FALSE,
                    !.seed = <<>>, !.transforms = 0, !.exit_type = -1]
  /\ prev' = [run |-> run, target |-> prev.target,
              first |-> IF prev.run = "first" THEN Outcome ELSE prev.first]

\* the call is made again on a workspace that was just allocated
Realloc ==
  /\ pc = "done"
  /\ prev.run = "first"
  /\ w' = StaleWorkspace(Capacity)
  /\ Reenter(prev.target, "fresh")

\* another call is made on the workspace
Other ==
  /\ pc = "done"
  /\ prev.run = "first"
  /\ w' = w
  /\ \E x \in ReplayInputs : Reenter(x, "other")

\* the call is made again on the workspace as it was left, or on one in
\* which every field but limit and every entry holds some old value
Reuse ==
  /\ pc = "done"
  /\ prev.run \in {"first", "other"}
  /\ w' \in {w, [StaleWorkspace(Capacity) EXCEPT !.size = Junk, !.maximum_level = Junk]}
  /\ Reenter(prev.target, "reuse")

NextReplay ==
  \/ Next
  \/ Realloc
  \/ Other
  \/ Reuse

SpecReplay == InitReplay /\ [][NextReplay]_vars

(***************************************************************************)
(* Properties of the workspace.                                            *)
(***************************************************************************)
\* the subintervals in use: the indices 0..size-1
Active == 0..(w.size - 1)

\* the bounds the call was given
Lower == IF in.driver = "qagp" THEN in.pts[1] ELSE in.a
Upper == IF in.driver = "qagp" THEN in.pts[Len(in.pts)] ELSE in.b

\* the points of a qagp call ascend (qag and qags are given a <= b here)
Ascending ==
  in.driver = "qagp" => \A j \in 1..(Len(in.pts) - 1) : in.pts[j] <= in.pts[j + 1]

\* the driver is in its loop or has returned
Running == pc \in {"loop", "done"}

\* the subintervals S, taken in the order of their lower bounds, lead from lo
\* to hi: the first starts at lo, each ends where the next starts, the last
\* ends at hi
RECURSIVE Tiles(_, _, _)
Tiles(S, lo, hi) ==
  IF S = {} THEN lo = hi
  ELSE \E k \in S : w.alist[k] = lo /\ Tiles(S \ {k}, w.blist[k], hi)

MaxError == CHOOSE e \in {w.elist[k] : k \in Active} : \A k \in Active : w.elist[k] <= e

IsPermutation == { w.order[k] : k \in Active } = Active

\* qpsrt is in its late phase for the current size: last >= limit / 2 + 2
LatePhase == w.size - 1 >= (w.limit \div 2) + 2

C4_Capacity ==
  (in.limit >= 1 /\ in.limit <= w.limit) => w.size <= in.limit

\* C5 - budget-bounded termination: the body of the bisection loop is
\* executed at most limit times in every call, whatever the kernel gives.
C5_Budget == g.iters <= in.limit

\* C6 - tolerance validation: a call with epsabs <= 0 and epsrel below the
\* achievable floor never evaluates the kernel, and the status it returns is
\* BadTol.
C6_BadTol ==
  tolerance_unreachable(in.epsabs, in.epsrel)
    => (g.qcalls = 0 /\ (pc = "done" => out.status = "BadTol"))

\* the call has a parameter the drivers test for: limit above the capacity,
\* or, for qagp, points that do not ascend or are more than the capacity
InvalidCall ==
  \/ in.limit > w.limit
  \/ in.driver = "qagp" /\ (~Ascending \/ Len(in.pts) > w.limit)

\* C7 - parameter validation: a call with an invalid parameter makes no
\* kernel call, no bisection and no append to the workspace, and the status
\* it returns is Inval.
C7_Inval ==
  InvalidCall
    => (g.qcalls = 0 /\ g.iters = 0 /\ w.size = 0
        /\ (pc = "done" => out.status = "Inval"))

\* C8 - error accounting: in every driver, after each bisection errsum is
\* the sum of elist[k] over the subintervals 0..size-1.
C8_ErrorAccounting ==
  (Running /\ g.iters >= 1) => d.errsum = SumTo(w.elist, w.size)

\* the call passes the parameter tests
ValidCall == ~InvalidCall /\ ~tolerance_unreachable(in.epsabs, in.epsrel)

\* C9 - returned result of qag: on every exit after the loop the result is
\* the sum of the results of the subintervals, which is the accumulator area,
\* and abserr is errsum.
C9_QagResult ==
  (in.driver = "qag" /\ ValidCall /\ pc = "done" /\ g.iters >= 1)
    => (out.result = ToQ(d.area) /\ sum_results(w) = d.area
        /\ out.abserr = ToQ(d.errsum))

C12_IterationLimit ==
  (in.driver = "qag" /\ ValidCall /\ pc \in {"loop", "done"} /\ in.limit >= 1
   /\ g.iters >= in.limit /\ d.errsum > d.tolerance /\ d.error_type = 0)
    => (pc = "done" /\ out.status = "MaxIter")

\* C13 - roundoff thresholds in qag: a qag run in which, while errsum >
\* tolerance, the late pattern (tenth loop body or later, the errors of the
\* halves sum to more than the error of the parent, neither error equal to its
\* resasc) has occurred 20 times, or the early pattern 6 times, has stopped
\* and is classified Round.
C13_RoundoffThresholds ==
  (in.driver = "qag" /\ ValidCall /\ pc \in {"loop", "done"}
   /\ (g.late >= 20 \/ g.early >= 6))
    => (pc = "done" /\ out.status = "Round")

(***************************************************************************)
(* Properties of repeated calls.                                           *)
(***************************************************************************)
\* the three outputs of an outcome
Outputs(o) == <<o.result, o.abserr, o.status>>

SameButLateOrder(o, p) ==
  /\ Outputs(o) = Outputs(p)
  /\ <<o.size, o.i, o.nrmax, o.maximum_level>> = <<p.size, p.i, p.nrmax, p.maximum_level>>
  /\ \A k \in 1..o.size : \A j \in 1..6 :
        (j = 5 /\ k - 1 >= (w.limit \div 2) + 2) \/ o.lists[k][j] = p.lists[k][j]

C15_Reuse ==
  (prev.run = "reuse" /\ pc # "start")
    => (pc \notin {"ub", "aborted"}
        /\ (pc = "done" => Outputs(Outcome) = Outputs(prev.first)))

\* C15, its case: the call has bisected and returned on a workspace that
\* holds entries of an earlier call beyond its own subintervals
C15_ReusedRun ==
  /\ prev.run = "reuse"
  /\ pc = "done"
  /\ g.iters >= 2
  /\ Outputs(Outcome) = Outputs(prev.first)
  /\ \E k \in DOMAIN w.blist : k >= w.size /\ w.blist[k] # 0


(***************************************************************************)
(* sort_results on its own: qagp calls it once, after it has seeded one    *)
(* subinterval per pair of points (order[k] = k, level[k] = 0) and written *)
(* their error estimates.                                                  *)
(***************************************************************************)
\* sort_results is applied to 1..SortLen seeded subintervals
SortLen == 4

\* the workspace after the seeding of n subintervals with the errors e
Seeded(n, e) ==
  [NewWorkspace(Capacity) EXCEPT
     !.size = n,
     !.order = [k \in 0..(Capacity - 1) |-> IF k < n THEN k ELSE 0],
     !.elist = [k \in 0..(Capacity - 1) |-> IF k < n THEN e[k] ELSE 0]]

InitSort ==
  /\ in = Input("qagp", "plain", <<0, 0>>, <<0, 8>>, <<1, 0>>, Capacity)
  /\ \E n \in 1..SortLen : \E e \in [0..(n - 1) -> 0..MaxErr] : w = Seeded(n, e)
  /\ table = initialise_table
  /\ d = Locals0
  /\ out = Out0
  /\ pc = "seeded"
  /\ g = [qcalls |-> 0, iters |-> 0, oob |-> FALSE, handler |-> "unknown",
          early |-> 0, late |-> 0, wrap |-> FALSE,
          seed |-> <<>>, transforms |-> 0, exit_type |-> -1]
  /\ prev = [run |-> "single", target |-> in, first |-> NoOutcome]

SortResults ==
  /\ pc = "seeded"
  /\ w' = sort_results(w).w
  /\ g' = [g EXCEPT !.oob = sort_results(w).bad >= 1]
  /\ pc' = "sorted"
  /\ UNCHANGED <<in, table, d, out, prev>>

SpecSort == InitSort /\ [][SortResults]_vars

\* C19 - sort_results: for every n >= 1 and every assignment of errors,
\* sort_results applied to order = identity leaves order[0..n-1] a
\* permutation of 0..n-1 with elist[order[k]] non-increasing in k, and sets
\* i = order[0], a subinterval of maximal error.
C19_SortResults ==
  pc = "sorted"
    => /\ IsPermutation
       /\ \A k \in 1..(w.size - 1) : w.elist[w.order[k - 1]] >= w.elist[w.order[k]]
       /\ w.i = w.order[0]
       /\ w.elist[w.i] = MaxError

(***************************************************************************)
(* The seeding of qagp on its own: calls of intern_qagp on two to four     *)
(* points with the "same" kernel, followed to the end of the step from the *)
(* entry.                                                                  *)
(***************************************************************************)
SeedInputs ==
  { Input("qagp", "same", <<0, 0>>, p, t, l) :
      p \in { <<0, 8>>, <<0, 4, 8>>, <<0, 2, 4, 8>> }, t \in Tols, l \in {1, Capacity} }

InitSeed ==
  /\ in \in SeedInputs
  /\ w = NewWorkspace(Capacity)
  /\ Entry
  /\ prev = [run |-> "single", target |-> in, first |-> NoOutcome]

SpecSeed == InitSeed /\ [][QagpStart]_vars

\* the sum of the kernel's error estimates ks[1..n]
RECURSIVE SeedErr(_, _)
SeedErr(ks, n) == IF n = 0 THEN 0 ELSE SeedErr(ks, n - 1) + ks[n].abserr

\* C25 - seeding of qagp: after the initialisation of qagp with an ascending
\* list pts of n >= 2 points, size = n - 1, the subinterval k is
\* [pts[k], pts[k+1]] with the kernel's result, every seeded subinterval has
\* level 0 and maximum_level = 0, elist[k] is the summed abserr0 for exactly
\* the k whose kernel error was equal to resasc and not zero and the
\* kernel's own error for the others, and errsum is the sum of these elist
\* values.
C25_Seeding ==
  (in.driver = "qagp" /\ Ascending /\ Len(in.pts) >= 2
     /\ pc \in {"loop", "done"} /\ g.iters = 0)
    => /\ w.size = Len(in.pts) - 1
       /\ w.maximum_level = 0
       /\ \A k \in 0..(w.size - 1) :
            w.alist[k] = in.pts[k + 1] /\ w.blist[k] = in.pts[k + 2] /\ w.level[k] = 0
       /\ Len(g.seed) = w.size
       /\ d.abserr0 = SeedErr(g.seed, w.size)
       /\ \A k \in 0..(w.size - 1) :
            /\ w.rlist[k] = g.seed[k + 1].result
            /\ w.elist[k] = IF g.seed[k + 1].abserr = g.seed[k + 1].resasc
                                /\ g.seed[k + 1].abserr # 0
                             THEN d.abserr0 ELSE g.seed[k + 1].abserr
       /\ d.errsum = SumTo(w.elist, w.size)

\* a seeding of three subintervals in which one error estimate was raised to
\* the summed abserr0 and another was kept
C25_Inflated ==
  /\ in.driver = "qagp" /\ Len(in.pts) = 4
  /\ pc = "loop" /\ g.iters = 0 /\ w.size = 3
  /\ \E j, k \in 0..2 : w.elist[j] = d.abserr0 /\ w.elist[k] > 0 /\ w.elist[k] < d.abserr0
  /\ d.errsum > d.abserr0


\* abserr0 = 0, or abserr0 <= tolerance and abserr0 # resasc0; in qagp the
\* summed abserr0 <= tolerance.  The locals d hold the first attempt once the
\* step from the entry is over; a run that ends inside that step at a call
\* of rgsl_error has failed the test.
FirstAttemptPasses ==
  LET tolerance == tolerance_of(in.epsabs, in.epsrel, d.result0)
  IN /\ g.qcalls >= 1
     /\ ~(pc = "aborted" /\ g.iters = 0)
     /\ IF in.driver = "qagp"
        THEN d.nint >= 1 /\ d.abserr0 <= tolerance
        ELSE d.abserr0 = 0 \/ (d.abserr0 <= tolerance /\ d.abserr0 # d.resasc0)

\* the kernel calls and the subintervals of a call that returns at once
FirstAttemptCalls == IF in.driver = "qagp" THEN USub(Len(in.pts), 1) ELSE 1

\* C16 - immediate convergence: a call whose first kernel evaluation passes
\* the first-attempt test returns Success with result = result0 and
\* abserr = abserr0 after exactly one kernel call (one per seeded subinterval
\* in qagp), without any bisection, and leaves size = 1 (npts - 1 in qagp).
C16_Immediate ==
  (FirstAttemptPasses /\ pc # "start")
    => /\ pc = "done"
       /\ out.status = "Success"
       /\ out.result = ToQ(d.result0)
       /\ out.abserr = ToQ(d.abserr0)
       /\ g.qcalls = FirstAttemptCalls
       /\ g.iters = 0
       /\ w.size = FirstAttemptCalls

\* a call of qagp on three points whose summed error estimate is positive and
\* within the tolerance has returned at once
C16_ReturnedAtOnce ==
  /\ FirstAttemptPasses
  /\ pc = "done"
  /\ in.driver = "qagp"
  /\ d.abserr0 > 0
  /\ w.size = 2
  /\ g.qcalls = 2

\* what retrieve returns from the workspace: (a, b, result, error) of the
\* subinterval i
Retrieved(x) == <<Rd(x.alist, x.i), Rd(x.blist, x.i), Rd(x.rlist, x.i), Rd(x.elist, x.i)>>

\* C17 - bisection is recorded: every iteration of the loop of a driver
\* records the two halves of the subinterval it retrieved, so size grows by
\* exactly one with the iteration and the next retrieve does not return the
\* same unbisected (a, b, result, error) again.
C17_BisectionRecorded ==
  [][(ValidCall /\ pc = "loop" /\ pc' \in {"loop", "done"} /\ g'.iters = g.iters + 1)
       => (w'.size = w.size + 1 /\ Retrieved(w') # Retrieved(w))]_vars

\* C18 - memory safety of the slice views: no index used on a view in
\* update, qpsrt, retrieve, increase_nrmax, large_interval, sort_results or
\* the drivers is at or beyond the length of the view, so no run fails a
\* bounds check, passes over one or leaves the allocation.
C18_ViewsInBounds == pc \notin {"panicked", "ub"} /\ ~g.oob

\* the number of entries of order that qpsrt keeps in descending order of
\* error, for the current size
SortedTop == qpsrt_top(w.size - 1, w.limit)

Slot(x, k) == <<Rd(x.alist, k), Rd(x.blist, k), Rd(x.rlist, k), Rd(x.elist, k), Rd(x.level, k)>>

\* y is x after the halves h of the subinterval x.i, with the kernel results
\* k1 and k2, have been placed as stated: the half of strictly larger error,
\* the first on a tie, in the slot x.i, the other in the slot x.size, both
\* one level below the parent, size one more, every other slot as it was
Placed(x, y, h, k1, k2) ==
  LET lvl    == Rd(x.level, x.i) + 1
      first  == <<h.a1, h.b1, k1.result, k1.abserr, lvl>>
      second == <<h.a2, h.b2, k2.result, k2.abserr, lvl>>
  IN /\ y.size = x.size + 1
     /\ Slot(y, x.i) = (IF k2.abserr > k1.abserr THEN second ELSE first)
     /\ Slot(y, x.size) = (IF k2.abserr > k1.abserr THEN first ELSE second)
     /\ \A k \in DOMAIN x.alist : k \in {x.i, x.size} \/ Slot(y, k) = Slot(x, k)

DeepestLevel(x) ==
  /\ \A k \in 0..(x.size - 1) : Rd(x.level, k) <= x.maximum_level
  /\ \E k \in 0..(x.size - 1) : Rd(x.level, k) = x.maximum_level

Transformed ==
  /\ in.driver = "qags"
  /\ pc = "loop" /\ pc' \in {"loop", "done"}
  /\ g'.transforms = g.transforms + 1

SelectSize == 12
SelectMax == 2

\* a workspace of SelectSize subintervals of (0, SelectSize) with the results
\* r, 1, 0, .. and the errors e, 0, ..
Bisected(r, e) ==
  [NewWorkspace(SelectSize + 1) EXCEPT
     !.size = SelectSize, !.maximum_level = 4,
     !.alist = [k \in 0..SelectSize |-> IF k < SelectSize THEN k ELSE 0],
     !.blist = [k \in 0..SelectSize |-> IF k < SelectSize THEN k + 1 ELSE 0],
     !.rlist = [@ EXCEPT ![0] = r, ![1] = 1],
     !.elist = [@ EXCEPT ![0] = e],
     !.level = [k \in 0..SelectSize |-> IF k < SelectSize THEN 4 ELSE 0],
     !.order = [k \in 0..SelectSize |-> IF k < SelectSize THEN k ELSE 0]]

InitSelect ==
  /\ \E dr \in {"qags", "qagp"} :
       in = Input(dr, "plain", <<0, SelectSize>>,
                  IF dr = "qagp" THEN <<0, SelectSize>> ELSE <<>>,
                  <<1, 0>>, SelectSize + 1)
  /\ \E r \in (0 - SelectMax)..(SelectMax - 1), e \in 2..(SelectMax + 1) :
       /\ w = Bisected(r, e)
       /\ \E x \in {-1, 0, 1, 300}, ee \in 0..(SelectMax + 1) \cup {DBL_MAX},
             c \in 0..SelectMax, et \in {0, 1, 2, 4, 5}, et2 \in {0, 1},
             p \in BOOLEAN :
            /\ et = 0 => ee <= in.epsabs
            /\ et = 5 => ee # DBL_MAX
            /\ d = [Locals0 EXCEPT !.area = r + 1, !.errsum = e, !.tolerance = 1,
                                   !.iteration = SelectSize, !.resabs0 = 400,
                                   !.nint = IF in.driver = "qagp" THEN 1 ELSE 0,
                                   !.roundoff_type1 = IF et = 2 THEN 10 ELSE 0,
                                   !.roundoff_type2 = 5 * et2,
                                   !.res_ext = ToQ(x), !.err_ext = ToQ(ee),
                                   !.ertest = ToQ(1),
                                   !.correc = c, !.error_type = et,
                                   !.error_type2 = et2, !.positive_integrand = p]
  /\ table = initialise_table
  /\ out = Out0
  /\ pc = "left"
  /\ g = [qcalls |-> 2 * SelectSize - 1, iters |-> SelectSize - 1, oob |-> FALSE,
          handler |-> "unknown",
          early |-> 0, late |-> 0, wrap |-> FALSE,
          seed |-> <<>>, transforms |-> 0, exit_type |-> -1]
  /\ prev = [run |-> "single", target |-> in, first |-> NoOutcome]

\* the statements after the loop
AfterLoop ==
  /\ pc = "left"
  /\ Finish(ext_tail(Step(w, table, d, out, "left", 0, 0, <<>>)), 0)

SpecSelect == InitSelect /\ [][AfterLoop]_vars

(***************************************************************************)
(* The extrapolation of intern_qags and intern_qagp on its own: the loop   *)
(* bodies that reach "Perform extrapolation", one after the other.  What   *)
(* the bisections before it give to a loop body, area and errsum (above    *)
(* the tolerance), is drawn from the areas and errors of the kernel        *)
(* family; the workspace is not followed.  A loop body gets here only with *)
(* error_type = 0, disallow_extrapolation = 0 and iteration < limit - 1.   *)
(* Two families:                                                           *)
(*  "waver"   areas 2, 4 or 6 and errsum 2 or 20000 in any order, in a     *)
(*            call with the limit ExtrapLimit;                             *)
(*  "steady"  areas 2 or 4 and errsum 2, in a call with the limit          *)
(*            TableLimit, which is enough to fill the table.               *)
(***************************************************************************)
ExtrapLimit == 14
TableLimit == 53

ExtrapAreas(kernel) == IF kernel = "waver" THEN {2, 4, 6} ELSE {2, 4}
ExtrapErrs(kernel) == IF kernel = "waver" THEN {2, 20000} ELSE {2}

\* the workspace after the first bisection of (0, 8)
Halved(limit) ==
  [NewWorkspace(limit) EXCEPT
     !.size = 2, !.maximum_level = 1,
     !.alist = [@ EXCEPT ![1] = 4], !.blist = [@ EXCEPT ![0] = 4, ![1] = 8],
     !.rlist = [@ EXCEPT ![0] = 1, ![1] = 1],
     !.elist = [@ EXCEPT ![0] = 1, ![1] = 1],
     !.level = [@ EXCEPT ![0] = 1, ![1] = 1],
     !.order = [@ EXCEPT ![1] = 1]]

\* the calls of the family kernel with the limit l, before the first loop
\* body that reaches "Perform extrapolation"
ExtrapEntry(kernel, l) ==
  /\ \E dr \in {"qags", "qagp"}, y0 \in ExtrapAreas(kernel) :
       /\ in = Input(dr, kernel, <<0, 8>>, IF dr = "qagp" THEN <<0, 8>> ELSE <<>>,
                     <<1, 0>>, l)
       \* qags has appended result0 and, in its second loop body, area; qagp
       \* has appended result0
       /\ \E y1 \in ExtrapAreas(kernel) :
            /\ table = IF dr = "qags"
                       THEN append_table(append_table(initialise_table, ToQ(y0)), ToQ(y1))
                       ELSE append_table(initialise_table, ToQ(y0))
            /\ d = [Locals0 EXCEPT !.area = IF dr = "qags" THEN y1 ELSE y0,
                                   !.errsum = 2, !.tolerance = 1,
                                   !.iteration = IF dr = "qags" THEN 2 ELSE 1,
                                   !.result0 = y0, !.abserr0 = 2, !.resabs0 = y0,
                                   !.nint = IF dr = "qagp" THEN 1 ELSE 0,
                                   !.res_ext = ToQ(y0), !.err_ext = QBig,
                                   !.ertest = ToQ(1),
                                   !.error_over_large_intervals = 2,
                                   !.positive_integrand = TRUE]
            /\ dr = "qagp" => y1 = y0
  /\ w = Halved(l)
  /\ out = Out0
  /\ pc = "loop"
  /\ g = [qcalls |-> 2 * d.iteration - 1, iters |-> d.iteration - 1, oob |-> FALSE,
          handler |-> "unknown",
          early |-> 0, late |-> 0, wrap |-> FALSE,
          seed |-> <<>>, transforms |-> 0, exit_type |-> -1]
  /\ prev = [run |-> "single", target |-> in, first |-> NoOutcome]

InitExtrap == ExtrapEntry("waver", ExtrapLimit)

InitTable == ExtrapEntry("steady", TableLimit)

\* a loop body that reaches "Perform extrapolation", from there to its end
Extrapolate ==
  /\ pc = "loop"
  /\ d.disallow_extrapolation = 0
  /\ d.iteration + 1 < USub(in.limit, 1)
  /\ \E y \in ExtrapAreas(in.kernel), e \in ExtrapErrs(in.kernel) :
       Finish(ext_table(Step(w, table,
                             [d EXCEPT !.iteration = @ + 1, !.area = y, !.errsum = e,
                                       !.error_over_large_intervals = e],
                             out, "loop", 2, 0, <<>>)), 1)

SpecExtrap == InitExtrap /\ [][Extrapolate]_vars

SpecTable == InitTable /\ [][Extrapolate]_vars

\* the run has left the loop of qags or qagp and returned
Selected == in.driver \in {"qags", "qagp"} /\ pc = "done" /\ g.exit_type # -1

\* an error flag was set when the loop was left
Flagged == g.exit_type # 0 \/ d.error_type2 # 0

\* the extrapolated estimate with error e is judged worse than the sum
Worse(e) ==
  IF d.res_ext[1] # 0 /\ d.area # 0
  THEN QLt(QMul(ToQ(d.errsum), QAbs(d.res_ext)), QMul(e, ToQ(Abs(d.area))))
  ELSE QLt(ToQ(d.errsum), e)

RawReturned == out.result = ToQ(sum_results(w)) /\ out.abserr = ToQ(d.errsum)

ExtReturned == out.result = d.res_ext /\ out.abserr = d.err_ext

Judged == IF d.error_type2 # 0 THEN QAdd(d.err_ext, ToQ(d.correc)) ELSE d.err_ext

C27_FlaggedKept ==
  /\ Selected /\ ValidCall
  /\ d.err_ext # QBig /\ Flagged /\ ~Worse(Judged) /\ ~RawReturned

\* a run judged worse only because of correc
C27_ByCorrec ==
  /\ Selected /\ d.err_ext # QBig /\ Flagged
  /\ Worse(Judged) /\ ~Worse(d.err_ext)

\* a loop body of qags or qagp that is followed to its end
LoopBody == in.driver \in {"qags", "qagp"} /\ pc = "loop" /\ pc' \in {"loop", "done"}

\* the loop body calls intern_qelg
Transforms == g'.transforms = g.transforms + 1

\* C28 - stall detection: error_type 5 is raised only in a loop body whose
\* transform is more than the 5th since ktmin was reset (ktmin + 1 > 5) and
\* with err_ext < 0.001 * errsum, and that loop body leaves the loop; a
\* transform sets ktmin to 0 exactly when its abseps < err_ext and adds one to
\* it otherwise; a loop body without a transform keeps ktmin.
C28_Stall ==
  [][LoopBody =>
       /\ (g'.exit_type = 5 \/ d'.error_type = 5)
            => /\ Transforms
               /\ d.ktmin + 1 > 5
               /\ QLt(d.err_ext, <<d'.errsum, 1000>>)
               /\ pc' = "done" /\ g'.exit_type = 5
       /\ d'.ktmin = IF ~Transforms THEN d.ktmin
                     ELSE IF QLt(d'.abseps, d.err_ext) THEN 0
                     ELSE d.ktmin + 1]_vars

\* a run that left the loop on the stall, after an improvement had reset the
\* counter
C28_Stalled ==
  /\ in.driver \in {"qags", "qagp"} /\ pc = "done"
  /\ g.exit_type = 5 /\ d.ktmin > 5 /\ d.err_ext # QBig
  /\ table.nres > d.ktmin

\* the transform of the loop body runs to completion
Completes == Transforms /\ table'.nres = table.nres + 1

\* the main loop of intern_qelg in this loop body, on the table with the
\* area of the loop body appended
PassOf(t) ==
  LET n == t.n - 1
  IN qelg_loop([epstab |-> Wr(Wr(t.rlist2, n + 2, Rd(t.rlist2, n)), n, QBig),
                result |-> Rd(t.rlist2, n), abserr |-> QBig,
                n_final |-> n, how |-> "run"], 0, n \div 2, n)

Apart(r, x) == QAbs(QSub(r, x))

\* C30 - ring of the recent results: a transform of qags or qagp that runs to
\* completion adds one to nres; the first three store their result in the
\* slot nres of the table's res3la; from the fourth on the reported error is
\* |r - r1| + |r - r2| + |r - r3| for the three results held in the table's
\* res3la, not below 5 * eps * |r|, and the ring is shifted to end with r.
C30_Ring ==
  [][(LoopBody /\ Completes) =>
       LET r == d'.reseps
       IN /\ table'.nres = table.nres + 1
          /\ table.nres < 3 => table'.res3la = [table.res3la EXCEPT ![table.nres] = r]
          /\ table.nres >= 3 =>
               /\ d'.abseps = QMax(QAdd(QAdd(Apart(r, table.res3la[2]),
                                             Apart(r, table.res3la[1])),
                                        Apart(r, table.res3la[0])),
                                   QEps(QAbs(r), 5))
               /\ table'.res3la = [k \in 0..2 |-> IF k < 2 THEN table.res3la[k + 1]
                                                  ELSE r]]_vars

\* the part of C30 about nres
C30_Counted == [][(LoopBody /\ Completes) => table'.nres = table.nres + 1]_vars

(***************************************************************************)
(* increase_nrmax on its own, on the workspaces a driver can hold when it  *)
(* calls it: 2 to Capacity subintervals in a workspace of Capacity slots,  *)
(* order a permutation of them, levels 1..ScanLevels with maximum_level    *)
(* the deepest, the cursor nrmax at any position and i the subinterval at  *)
(* the cursor or the one of largest error.  What the call returns is kept  *)
(* in out.status.  A failed bounds check ends the call in "panicked"; the  *)
(* call is also followed past it, as in Finish.  The scan stays below      *)
(* size, so no access leaves the allocation.                               *)
(***************************************************************************)
ScanLevels == 2

\* order[0..n-1]: the identity, its reverse, or the identity rotated by one
ScanOrders(n) ==
  { [k \in 0..(Capacity - 1) |-> IF k < n THEN k ELSE 0],
    [k \in 0..(Capacity - 1) |-> IF k < n THEN n - 1 - k ELSE 0],
    [k \in 0..(Capacity - 1) |-> IF k < n THEN (k + 1) % n ELSE 0] }

InitScan ==
  /\ in = Input("qags", "plain", <<0, 8>>, <<>>, <<1, 0>>, Capacity)
  /\ \E n \in 2..Capacity : \E o \in ScanOrders(n), c \in 0..(n - 1),
                                atCursor \in BOOLEAN :
       \E lv \in [0..(n - 1) -> 1..ScanLevels] :
            w = [Seeded(n, [k \in 0..(n - 1) |-> 0]) EXCEPT
                   !.order = o,
                   !.level = [k \in 0..(Capacity - 1) |-> IF k < n THEN lv[k] ELSE 0],
                   !.maximum_level = CHOOSE m \in 1..ScanLevels :
                                       /\ \E k \in 0..(n - 1) : lv[k] = m
                                       /\ \A k \in 0..(n - 1) : lv[k] <= m,
                   !.nrmax = c,
                   !.i = IF atCursor THEN o[c] ELSE o[0]]
  /\ table = initialise_table
  /\ d = Locals0
  /\ out = Out0
  /\ pc = "ranked"
  /\ g = [qcalls |-> 0, iters |-> 0, oob |-> FALSE, handler |-> "unknown",
          early |-> 0, late |-> 0, wrap |-> FALSE,
          seed |-> <<>>, transforms |-> 0, exit_type |-> -1]
  /\ prev = [run |-> "single", target |-> in, first |-> NoOutcome]

IncreaseNrmax ==
  /\ pc = "ranked"
  /\ LET r == increase_nrmax(w)
     IN \/ /\ r.bad = 1
           /\ pc' = "panicked"
           /\ UNCHANGED <<w, out, g>>
        \/ /\ r.bad < 2
           /\ pc' = "scanned"
           /\ w' = r.w
           /\ out' = [out EXCEPT !.status = IF r.ret THEN "true" ELSE "false"]
           /\ g' = [g EXCEPT !.oob = r.bad = 1]
  /\ UNCHANGED <<in, table, d, prev>>

SpecScan == InitScan /\ [][IncreaseNrmax]_vars

\* the scan bound of increase_nrmax for the workspace x
ScanBound(x) ==
  LET last == x.size - 1
  IN IF last <= 1 + (x.limit \div 2) THEN last ELSE x.limit + 1 - last

C31_Exhausted ==
  /\ pc = "scanned" /\ out.status = "false"
  /\ w.size = Capacity /\ w.nrmax = 3

====
